---- MODULE Spec2Model ----
(***************************************************************************)
(* CV-Analyser: the embedded (SQLite, db.py) and hosted (PostgreSQL,       *)
(* database.py) stores, the LLM retry wrapper and resume analysis          *)
(* (ai_integration.py), the OCR service call (parsing.py) and the          *)
(* interview helpers with their local fallbacks (ai_integration.py), the   *)
(* skill gap scoring and the pitch script (ai_integration.py), the timing  *)
(* distribution (tts_video.py) and the history read-back (db.py), the      *)
(* full-text index (db.py), the video generation paths (app.py,            *)
(* gemini_video.py), the Streamlit session (app.py), the narration joiners *)
(* (tts_video.py), the generation status curve (gemini_video.py) and the   *)
(* cached hosted connection (database.py).                                 *)
(*                                                                         *)
(* Each subsystem has its own specification (SpecEmbedded, SpecHosted,     *)
(* SpecGpt, SpecOcr, SpecInterview, SpecSkills, SpecPitch, SpecTiming,     *)
(* SpecHistory, SpecSearch, SpecVideo, SpecSession, SpecNarration,         *)
(* SpecStatus, SpecConn); the variables of the other subsystems stay at    *)
(* their idle values.                                                      *)
(***************************************************************************)
EXTENDS Integers, Sequences, FiniteSets, TLC

VARIABLES
    lite,       \* embedded store: the SQLite tables and AUTOINCREMENT counters
    lite_last,  \* embedded store: the last call and what it returned
    pg,         \* hosted store: the PostgreSQL tables and the id generator
    pg_last,    \* hosted store: the last call and what it returned
    gpt_in,     \* what the LLM client answers on each attempt
    gpt_out,    \* result of _call_gpt_with_retry / call_gpt_analysis
    ocr_in,     \* file/api key and what the OCR service answers on each attempt
    ocr_out,    \* result of call_nutrient_ocr
    iv_in,      \* inputs of the interview helpers and the LLM's answer
    iv_out,     \* result of the interview helper that ran
    sk_in,      \* resume skills and job skills given to score_resume_vs_job
    sk_out,     \* result of score_resume_vs_job
    ps_in,      \* analysis payload given to generate_pitch_script
    ps_out,     \* the script generate_pitch_script returned
    td_in,      \* script parts and total duration given to the timing distribution
    td_out,     \* result of _calculate_timing_distribution
    hist,       \* embedded store with row contents: cv_records, analysis_results
    hist_last,  \* the last store / history call on it and what it returned
    fts,        \* embedded store with texts: cv_records and the cv_search index
    fts_last,   \* the last call on it and what it returned
    vg_in,      \* a video request and how the generative and the plain path behave
    vg_out,     \* what the video entry point returned or raised
    sess,       \* session state of the application and the step that last ran
    sess_last,  \* what the last step of the session did
    tts_in,     \* segment texts given to the narration joiners
    tts_out,    \* the joined narration
    gs_in,      \* a generation job: seconds elapsed since its start
    gs_out,     \* the last two reports of check_generation_status
    conn,       \* hosted store connections and the module-level cache
    conn_last   \* the connection the last hosted operation ran on

\* The stores, the LLM calls, the OCR call and the interview helpers.
baseVars == <<lite, lite_last, pg, pg_last, gpt_in, gpt_out, ocr_in, ocr_out, iv_in, iv_out>>

\* The skill scoring, the pitch script, the timing distribution and the
\* store-and-read-back of analysis contents.
calcVars == <<sk_in, sk_out, ps_in, ps_out, td_in, td_out, hist, hist_last>>

\* The search index, the video entry points, the application session, the
\* narration joiners, the generation status and the hosted connection cache.
appVars == <<fts, fts_last, vg_in, vg_out, sess, sess_last, tts_in, tts_out,
             gs_in, gs_out, conn, conn_last>>

vars == <<baseVars, calcVars, appVars>>

(***************************************************************************)
(* Bounds of the model.                                                    *)
(***************************************************************************)
MaxCv == 2          \* CV Records ever inserted into one store
MaxVideo == 2       \* Video Records ever inserted into one store

Min(a, b) == IF a < b THEN a ELSE b

(***************************************************************************)
(* Embedded store (src/db.py).                                             *)
(***************************************************************************)

\* get_connection opens sqlite3.connect(db_path) and sets only row_factory:
\* no "PRAGMA foreign_keys = ON" is ever issued, and SQLite leaves foreign-key
\* enforcement (and with it ON DELETE CASCADE) off on a new connection.
PragmaForeignKeys == FALSE

LiteEmpty ==
    [cv |-> {}, ar |-> {}, vr |-> {}, seq_cv |-> 0, seq_ar |-> 0, seq_vr |-> 0]

\* INSERT INTO cv_records ...; cursor.lastrowid is the new AUTOINCREMENT id.
LiteInsertCv(db) ==
    [db EXCEPT !.cv = @ \cup {db.seq_cv + 1}, !.seq_cv = @ + 1]

\* INSERT INTO analysis_results (cv_id, ...)
LiteInsertAr(db, cv_id) ==
    [db EXCEPT !.ar = @ \cup {[id |-> db.seq_ar + 1, cv_id |-> cv_id]},
               !.seq_ar = @ + 1]

\* INSERT INTO video_records (...) with status 'completed'
LiteInsertVr(db, cv_id) ==
    [db EXCEPT !.vr = @ \cup {[id |-> db.seq_vr + 1, cv_id |-> cv_id,
                               status |-> "completed"]},
               !.seq_vr = @ + 1]

\* DELETE FROM cv_records WHERE id = ?; the child rows go only when the
\* connection enforces foreign keys.
LiteDeleteCv(db, cv_id) ==
    IF PragmaForeignKeys
    THEN [db EXCEPT !.cv = @ \ {cv_id},
                    !.ar = {r \in @ : r.cv_id # cv_id},
                    !.vr = {r \in @ : r.cv_id # cv_id}]
    ELSE [db EXCEPT !.cv = @ \ {cv_id}]

\* "with db.get_connection() as conn": the sqlite3 connection context manager
\* commits when the block ends normally and rolls back when it raises.
LiteConnExit(committed, working, raised) ==
    IF raised THEN committed ELSE working

LiteFails == {"none", "cv_insert", "ar_insert", "commit"}

\* db.store_cv_analysis: both inserts in one transaction, then commit.
\* Returns the store after the call and the outcome.
db_store_cv_analysis_result(db, fail) ==
    LET s1 == LiteInsertCv(db)
        cv_id == s1.seq_cv
        s2 == LiteInsertAr(s1, cv_id)
    IN  IF fail = "cv_insert"
        THEN [db |-> LiteConnExit(db, db, TRUE), ret |-> "raised", id |-> 0]
        ELSE IF fail = "ar_insert"
        THEN [db |-> LiteConnExit(db, s1, TRUE), ret |-> "raised", id |-> cv_id]
        ELSE IF fail = "commit"
        THEN [db |-> LiteConnExit(db, s2, TRUE), ret |-> "raised", id |-> cv_id]
        ELSE [db |-> LiteConnExit(db, s2, FALSE), ret |-> "returned", id |-> cv_id]

db_store_cv_analysis ==
    /\ lite.seq_cv < MaxCv
    /\ \E fail \in LiteFails :
        LET r == db_store_cv_analysis_result(lite, fail)
        IN  /\ lite' = r.db
            /\ lite_last' = [op |-> "store_cv_analysis", id |-> r.id,
                             existed |-> FALSE, ret |-> r.ret, drv |-> fail # "none"]
    /\ UNCHANGED <<pg, pg_last, gpt_in, gpt_out, ocr_in, ocr_out, iv_in, iv_out, calcVars, appVars>>

\* db.store_video_record: one insert, status 'completed'.  With foreign keys
\* enforced an unknown cv_id would be refused by the insert.
db_store_video_record_result(db, cv_id, fail) ==
    IF fail \/ (PragmaForeignKeys /\ cv_id \notin db.cv)
    THEN [db |-> LiteConnExit(db, db, TRUE), ret |-> "raised", id |-> 0]
    ELSE [db |-> LiteConnExit(db, LiteInsertVr(db, cv_id), FALSE),
          ret |-> "returned", id |-> db.seq_vr + 1]

db_store_video_record ==
    /\ lite.seq_vr < MaxVideo
    /\ \E cv_id \in 1..MaxCv, fail \in BOOLEAN :
        LET r == db_store_video_record_result(lite, cv_id, fail)
        IN  /\ lite' = r.db
            /\ lite_last' = [op |-> "store_video_record", id |-> cv_id,
                             existed |-> cv_id \in lite.cv, ret |-> r.ret, drv |-> fail]
    /\ UNCHANGED <<pg, pg_last, gpt_in, gpt_out, ocr_in, ocr_out, iv_in, iv_out, calcVars, appVars>>

\* db.delete_cv_record: True when a row was deleted, False when none was or
\* when sqlite3 raised.
db_delete_cv_record_result(db, cv_id, fail) ==
    IF fail
    THEN [db |-> LiteConnExit(db, db, TRUE), ret |-> "False"]
    ELSE IF cv_id \in db.cv
    THEN [db |-> LiteConnExit(db, LiteDeleteCv(db, cv_id), FALSE), ret |-> "True"]
    ELSE [db |-> LiteConnExit(db, db, FALSE), ret |-> "False"]

db_delete_cv_record ==
    /\ \E cv_id \in 1..MaxCv, fail \in BOOLEAN :
        LET r == db_delete_cv_record_result(lite, cv_id, fail)
        IN  /\ lite' = r.db
            /\ lite_last' = [op |-> "delete_cv_record", id |-> cv_id,
                             existed |-> cv_id \in lite.cv, ret |-> r.ret, drv |-> fail]
    /\ UNCHANGED <<pg, pg_last, gpt_in, gpt_out, ocr_in, ocr_out, iv_in, iv_out, calcVars, appVars>>

\* DELETE FROM cv_records WHERE created_at < datetime('now', '-N days').
\* created_at is CURRENT_TIMESTAMP at insertion and ids are AUTOINCREMENT, so
\* the rows older than the limit are the rows with an id up to some cutoff.
LiteDeleteOlder(db, cutoff) ==
    IF PragmaForeignKeys
    THEN [db EXCEPT !.cv = {c \in @ : c > cutoff},
                    !.ar = {r \in @ : r.cv_id > cutoff},
                    !.vr = {r \in @ : r.cv_id > cutoff}]
    ELSE [db EXCEPT !.cv = {c \in @ : c > cutoff}]

\* db.cleanup_old_records: one DELETE on cv_records, commit; returns
\* cursor.rowcount, or 0 when sqlite3 raised.
db_cleanup_old_records_result(db, cutoff, fail) ==
    IF fail
    THEN [db |-> LiteConnExit(db, db, TRUE), ret |-> 0]
    ELSE [db |-> LiteConnExit(db, LiteDeleteOlder(db, cutoff), FALSE),
          ret |-> Cardinality({c \in db.cv : c <= cutoff})]

db_cleanup_old_records ==
    /\ \E cutoff \in 0..MaxCv, fail \in BOOLEAN :
        LET r == db_cleanup_old_records_result(lite, cutoff, fail)
        IN  /\ lite' = r.db
            /\ lite_last' = [op |-> "cleanup_old_records", id |-> cutoff,
                             existed |-> r.ret > 0, ret |-> "returned", drv |-> fail]
    /\ UNCHANGED <<pg, pg_last, gpt_in, gpt_out, ocr_in, ocr_out, iv_in, iv_out, calcVars, appVars>>

NoCall == [op |-> "none", id |-> 0, existed |-> FALSE, ret |-> "none", drv |-> FALSE]

InitLite == lite = LiteEmpty /\ lite_last = NoCall


(***************************************************************************)
(* Hosted store (src/database.py).                                         *)
(***************************************************************************)

Statuses == {"pending", "processing", "completed", "failed"}

\* Status arguments a caller may pass to update_video_status: the four
\* documented ones and one that is none of them (the function takes any str).
StatusArgs == Statuses \cup {"archived"}

\* video_url arguments: "" stands for None / the empty string (both falsy).
UrlArgs == {"", "https://v/1"}

PgEmpty ==
    [cv |-> {}, ar |-> {}, vr |-> {}, seq_cv |-> 0, seq_ar |-> 0, seq_vr |-> 0]

\* INSERT INTO <table> (...) VALUES (...) RETURNING *: the row as stored, its
\* id drawn by gen_random_uuid() (never an id used before).
PgNewRow(db, table, data) ==
    IF table = "cv_records" THEN [id |-> db.seq_cv + 1]
    ELSE IF table = "analysis_results"
    THEN [id |-> db.seq_ar + 1, cv_id |-> data.cv_id]
    ELSE [id |-> db.seq_vr + 1, cv_id |-> data.cv_id, status |-> data.status,
          video_url |-> ""]

PgInsert(db, table, data) ==
    IF table = "cv_records"
    THEN [db EXCEPT !.cv = @ \cup {db.seq_cv + 1}, !.seq_cv = @ + 1]
    ELSE IF table = "analysis_results"
    THEN [db EXCEPT !.ar = @ \cup {PgNewRow(db, table, data)}, !.seq_ar = @ + 1]
    ELSE [db EXCEPT !.vr = @ \cup {PgNewRow(db, table, data)}, !.seq_vr = @ + 1]

\* cv_id UUID REFERENCES cv_records(id): PostgreSQL refuses a child row whose
\* cv_id names no CV Record.
PgForeignKeyOk(db, table, data) ==
    table = "cv_records" \/ data.cv_id \in db.cv

PgSelect(db, table, key) ==
    IF table = "cv_records" THEN {[id |-> i] : i \in db.cv \cap {key}}
    ELSE IF table = "analysis_results" THEN {r \in db.ar : r.id = key}
    ELSE {r \in db.vr : r.id = key}

\* Variant of execute whose 'update' branch runs UPDATE ... SET ... WHERE id = key
\* on video_records and answers with the rows it changed.
WrapperExecute_Applying(db, table, operation, data, key, fail) ==
    IF fail
    THEN [db |-> db, data |-> {}, raised |-> TRUE]
    ELSE IF operation = "select"
    THEN [db |-> db, data |-> PgSelect(db, table, key), raised |-> FALSE]
    ELSE IF operation = "insert"
    THEN IF PgForeignKeyOk(db, table, data)
         THEN [db |-> PgInsert(db, table, data),
               data |-> {PgNewRow(db, table, data)}, raised |-> FALSE]
         ELSE [db |-> db, data |-> {}, raised |-> TRUE]
    ELSE IF operation = "update" /\ table = "video_records"
    THEN LET changed(r) == [r EXCEPT !.status = data.status,
                                     !.video_url = IF data.video_url # ""
                                                   THEN data.video_url ELSE @]
         IN  [db |-> [db EXCEPT !.vr = {IF r.id = key THEN changed(r) ELSE r : r \in @}],
              data |-> {changed(r) : r \in {x \in db.vr : x.id = key}},
              raised |-> FALSE]
    ELSE [db |-> db, data |-> {}, raised |-> FALSE]

\* DatabaseQueryWrapper.execute: 'select' and 'insert' run SQL; every other
\* operation ('update', 'delete') falls to the final else, runs no statement
\* and answers with an empty data list.  A failing statement (or commit) is
\* rolled back and re-raised.
WrapperExecute(db, table, operation, data, key, fail) ==
    IF fail
    THEN [db |-> db, data |-> {}, raised |-> TRUE]
    ELSE IF operation = "select"
    THEN [db |-> db, data |-> PgSelect(db, table, key), raised |-> FALSE]
    ELSE IF operation = "insert"
    THEN IF PgForeignKeyOk(db, table, data)
         THEN [db |-> PgInsert(db, table, data),
               data |-> {PgNewRow(db, table, data)}, raised |-> FALSE]
         ELSE [db |-> db, data |-> {}, raised |-> TRUE]
    ELSE [db |-> db, data |-> {}, raised |-> FALSE]

PgFails == {"none", "cv_insert", "ar_insert", "commit"}

\* database.store_cv_analysis: two INSERTs on one cursor, one commit; any
\* exception rolls the connection back and is re-raised wrapped.
database_store_cv_analysis_result(db, fail) ==
    LET s1 == PgInsert(db, "cv_records", [cv_id |-> 0])
        cv_id == s1.seq_cv
        s2 == PgInsert(s1, "analysis_results", [cv_id |-> cv_id])
    IN  IF fail = "none"
        THEN [db |-> s2, ret |-> "returned", id |-> cv_id]
        ELSE [db |-> db, ret |-> "raised", id |-> IF fail = "cv_insert" THEN 0 ELSE cv_id]

database_store_cv_analysis ==
    /\ pg.seq_cv < MaxCv
    /\ \E fail \in PgFails :
        LET r == database_store_cv_analysis_result(pg, fail)
        IN  /\ pg' = r.db
            /\ pg_last' = [op |-> "store_cv_analysis", id |-> r.id, existed |-> FALSE,
                           ret |-> r.ret, status |-> "", url |-> "", drv |-> fail # "none"]
    /\ UNCHANGED <<lite, lite_last, gpt_in, gpt_out, ocr_in, ocr_out, iv_in, iv_out, calcVars, appVars>>

\* database.store_cv_analysis_with_job: the CV Record and the Analysis Result
\* go through two separate wrapper inserts, each committed by execute().
database_store_cv_analysis_with_job_result(db, fail) ==
    LET e1 == WrapperExecute(db, "cv_records", "insert", [cv_id |-> 0], 0,
                             fail = "cv_insert")
        cv_id == e1.db.seq_cv
        e2 == WrapperExecute(e1.db, "analysis_results", "insert", [cv_id |-> cv_id], 0,
                             fail = "ar_insert")
    IN  IF e1.raised \/ e1.data = {}
        THEN [db |-> e1.db, ret |-> "raised", id |-> 0]
        ELSE IF e2.raised \/ e2.data = {}
        THEN [db |-> e2.db, ret |-> "raised", id |-> cv_id]
        ELSE [db |-> e2.db, ret |-> "returned", id |-> cv_id]

database_store_cv_analysis_with_job ==
    /\ pg.seq_cv < MaxCv
    /\ \E fail \in {"none", "cv_insert", "ar_insert"} :
        LET r == database_store_cv_analysis_with_job_result(pg, fail)
        IN  /\ pg' = r.db
            /\ pg_last' = [op |-> "store_cv_analysis_with_job", id |-> r.id,
                           existed |-> FALSE, ret |-> r.ret, status |-> "", url |-> "",
                           drv |-> fail # "none"]
    /\ UNCHANGED <<lite, lite_last, gpt_in, gpt_out, ocr_in, ocr_out, iv_in, iv_out, calcVars, appVars>>

\* database.store_video_record: a wrapper insert with status 'pending'.
database_store_video_record_result(db, cv_id, fail) ==
    LET e == WrapperExecute(db, "video_records", "insert",
                            [cv_id |-> cv_id, status |-> "pending"], 0, fail)
    IN  IF e.raised \/ e.data = {}
        THEN [db |-> e.db, ret |-> "raised", id |-> 0]
        ELSE [db |-> e.db, ret |-> "returned", id |-> e.db.seq_vr]

database_store_video_record ==
    /\ pg.seq_vr < MaxVideo
    /\ \E cv_id \in 1..MaxCv, fail \in BOOLEAN :
        LET r == database_store_video_record_result(pg, cv_id, fail)
        IN  /\ pg' = r.db
            /\ pg_last' = [op |-> "store_video_record", id |-> r.id,
                           existed |-> cv_id \in pg.cv, ret |-> r.ret,
                           status |-> "pending", url |-> "", drv |-> fail]
    /\ UNCHANGED <<lite, lite_last, gpt_in, gpt_out, ocr_in, ocr_out, iv_in, iv_out, calcVars, appVars>>

\* database.update_video_status: updates = {status[, video_url]}, a wrapper
\* 'update' filtered on id; True when the response carries data, False when
\* it does not or when anything raised.
database_update_video_status_result(db, video_id, status, video_url, fail) ==
    LET updates == [status |-> status, video_url |-> video_url]
        e == WrapperExecute(db, "video_records", "update", updates, video_id, fail)
    IN  IF e.raised THEN [db |-> e.db, ret |-> "False"]
        ELSE IF e.data # {} THEN [db |-> e.db, ret |-> "True"]
        ELSE [db |-> e.db, ret |-> "False"]

database_update_video_status ==
    /\ \E video_id \in 1..MaxVideo, status \in StatusArgs, video_url \in UrlArgs,
          fail \in BOOLEAN :
        LET r == database_update_video_status_result(pg, video_id, status, video_url, fail)
        IN  /\ pg' = r.db
            /\ pg_last' = [op |-> "update_video_status", id |-> video_id,
                           existed |-> \E v \in pg.vr : v.id = video_id,
                           ret |-> r.ret, status |-> status, url |-> video_url,
                           drv |-> fail]
    /\ UNCHANGED <<lite, lite_last, gpt_in, gpt_out, ocr_in, ocr_out, iv_in, iv_out, calcVars, appVars>>

\* database.delete_cv_record: a wrapper 'delete' filtered on id.
database_delete_cv_record_result(db, cv_id, fail) ==
    LET e == WrapperExecute(db, "cv_records", "delete", [cv_id |-> 0], cv_id, fail)
    IN  IF e.raised THEN [db |-> e.db, ret |-> "False"]
        ELSE IF e.data # {} THEN [db |-> e.db, ret |-> "True"]
        ELSE [db |-> e.db, ret |-> "False"]

database_delete_cv_record ==
    /\ \E cv_id \in 1..MaxCv, fail \in BOOLEAN :
        LET r == database_delete_cv_record_result(pg, cv_id, fail)
        IN  /\ pg' = r.db
            /\ pg_last' = [op |-> "delete_cv_record", id |-> cv_id,
                           existed |-> cv_id \in pg.cv, ret |-> r.ret,
                           status |-> "", url |-> "", drv |-> fail]
    /\ UNCHANGED <<lite, lite_last, gpt_in, gpt_out, ocr_in, ocr_out, iv_in, iv_out, calcVars, appVars>>

NoPgCall ==
    [op |-> "none", id |-> 0, existed |-> FALSE, ret |-> "none", status |-> "", url |-> "",
     drv |-> FALSE]

InitPg == pg = PgEmpty /\ pg_last = NoPgCall


(***************************************************************************)
(* LLM retry wrapper and resume analysis (src/ai_integration.py).          *)
(***************************************************************************)
MaxAttempts == 3    \* longest answer script / largest max_attempts tried

DefaultMaxAttempts == 2

\* Messages of the exceptions the LLM client raises.
Errors == {"Rate limit exceeded", "Connection reset"}

required_fields ==
    <<"strengths", "weak_points", "suggestions", "top_skills", "one_sentence_pitch">>

list_fields == <<"strengths", "weak_points", "suggestions", "top_skills">>

FieldSet == {required_fields[i] : i \in 1..Len(required_fields)}

\* A JSON object of the response, by the JSON type of each required key
\* ("absent": the key is missing).
ValidObject ==
    [f \in FieldSet |-> IF f = "one_sentence_pitch" THEN "str" ELSE "list"]

NoObject == [f \in FieldSet |-> "absent"]

Objects ==
    {ValidObject} \cup
    {[ValidObject EXCEPT ![f] = t] : f \in FieldSet, t \in {"absent", "list", "str", "num"}}

\* A response text: "json" is exactly one JSON document; "embedded" is prose
\* around a {...} block that parses; "embedded_bad" is prose with braces whose
\* greedy match does not parse; "nojson" has no {...}; "none" is a message
\* whose content is None.  top: what the JSON document is at top level (an
\* object, a list or a string that lacks the first required key, a number).
Contents ==
    [wrap : {"json", "embedded"}, top : {"object"}, obj : Objects] \cup
    [wrap : {"json"}, top : {"list", "str", "num"}, obj : {NoObject}] \cup
    [wrap : {"embedded_bad", "nojson", "none"}, top : {"none"}, obj : {NoObject}]

Raise(e) == [kind |-> "raise", err |-> e, content |-> [wrap |-> "none", top |-> "none", obj |-> NoObject]]

Answer(c) == [kind |-> "ok", err |-> "", content |-> c]

\* The client's answers, attempt by attempt: n failures, then a response.
Scripts ==
    {[i \in 1..MaxAttempts |-> IF i <= n THEN Raise(errs[i]) ELSE Answer(c)] :
        n \in 0..MaxAttempts, errs \in [1..MaxAttempts -> Errors], c \in Contents}

\* Variant: the product 2 * attempt in place of the power.
BackoffWait_Product(attempt) == 2 * attempt

\* wait_time = 2 ** attempt
BackoffWait(attempt) == 2 ^ attempt

RECURSIVE RetryLoop(_, _, _, _, _)
\* The for loop of _call_gpt_with_retry from `attempt` on.
RetryLoop(script, max_attempts, attempt, calls, sleeps) ==
    IF attempt >= max_attempts
    THEN [kind |-> "returned_none", msg |-> <<>>, calls |-> calls, sleeps |-> sleeps,
          content |-> [wrap |-> "none", top |-> "none", obj |-> NoObject]]
    ELSE LET o == script[attempt + 1]
         IN  IF o.kind = "ok"
             THEN [kind |-> "returned", msg |-> <<>>, calls |-> calls + 1,
                   sleeps |-> sleeps, content |-> o.content]
             ELSE IF attempt < max_attempts - 1
             THEN RetryLoop(script, max_attempts, attempt + 1, calls + 1,
                            Append(sleeps, BackoffWait(attempt)))
             ELSE [kind |-> "raised", msg |-> <<o.err>>, calls |-> calls + 1,
                   sleeps |-> sleeps,
                   content |-> [wrap |-> "none", top |-> "none", obj |-> NoObject]]

\* Variant: a single attempt whatever max_attempts is, no retry.
call_gpt_with_retry_once(script, max_attempts) ==
    RetryLoop(script, Min(max_attempts, 1), 0, 0, <<>>)

\* _call_gpt_with_retry(system_prompt, user_message, max_attempts)
call_gpt_with_retry_result(script, max_attempts) ==
    RetryLoop(script, max_attempts, 0, 0, <<>>)

RECURSIVE FirstMissing(_, _)
\* for field in required_fields: if field not in data
FirstMissing(obj, i) ==
    IF i > Len(required_fields) THEN 0
    ELSE IF obj[required_fields[i]] = "absent" THEN i
    ELSE FirstMissing(obj, i + 1)

RECURSIVE FirstNotList(_, _)
\* for field in list_fields: if not isinstance(data[field], list)
FirstNotList(obj, i) ==
    IF i > Len(list_fields) THEN 0
    ELSE IF obj[list_fields[i]] # "list" THEN i
    ELSE FirstNotList(obj, i + 1)

\* _parse_and_validate_response(response_text)
parse_and_validate_response(c) ==
    IF c.wrap = "none"
    THEN [kind |-> "raised", data |-> NoObject,
          msg |-> <<"the JSON object must be str, bytes or bytearray, not NoneType">>]
    ELSE IF c.wrap = "nojson"
    THEN [kind |-> "raised", data |-> NoObject, msg |-> <<"No valid JSON found in response">>]
    ELSE IF c.wrap = "embedded_bad"
    THEN [kind |-> "raised", data |-> NoObject, msg |-> <<"Failed to parse extracted JSON">>]
    ELSE IF c.top = "num"
    THEN [kind |-> "raised", data |-> NoObject,
          msg |-> <<"argument of type 'int' is not iterable">>]
    ELSE IF c.top \in {"list", "str"}
    THEN [kind |-> "raised", data |-> NoObject,
          msg |-> <<"Missing required field: ", required_fields[1]>>]
    ELSE IF FirstMissing(c.obj, 1) # 0
    THEN [kind |-> "raised", data |-> NoObject,
          msg |-> <<"Missing required field: ", required_fields[FirstMissing(c.obj, 1)]>>]
    ELSE IF FirstNotList(c.obj, 1) # 0
    THEN [kind |-> "raised", data |-> NoObject,
          msg |-> <<"Field ", list_fields[FirstNotList(c.obj, 1)], " must be a list">>]
    ELSE IF c.obj["one_sentence_pitch"] # "str"
    THEN [kind |-> "raised", data |-> NoObject,
          msg |-> <<"one_sentence_pitch must be a string">>]
    ELSE [kind |-> "returned", data |-> c.obj, msg |-> <<>>]

\* Variant: a failed call or parse answers with an empty default analysis
\* instead of raising.
call_gpt_analysis_with_default(script) ==
    LET r == call_gpt_with_retry_result(script, DefaultMaxAttempts)
        p == parse_and_validate_response(r.content)
    IN  IF r.kind = "raised" \/ p.kind = "raised"
        THEN [kind |-> "returned", data |-> NoObject, inner |-> <<>>, msg |-> <<>>,
              calls |-> r.calls, sleeps |-> r.sleeps]
        ELSE [kind |-> "returned", data |-> p.data, inner |-> <<>>, msg |-> <<>>,
              calls |-> r.calls, sleeps |-> r.sleeps]

\* call_gpt_analysis(resume_text, job_text): retry wrapper with the default
\* max_attempts, then parse and validate; any exception is re-raised as
\* Exception("Failed to analyze resume: " + str(e)).
call_gpt_analysis_result(script) ==
    LET r == call_gpt_with_retry_result(script, DefaultMaxAttempts)
        p == parse_and_validate_response(r.content)
    IN  IF r.kind = "raised"
        THEN [kind |-> "raised", data |-> NoObject, inner |-> r.msg,
              msg |-> <<"Failed to analyze resume: ">> \o r.msg,
              calls |-> r.calls, sleeps |-> r.sleeps]
        ELSE IF p.kind = "raised"
        THEN [kind |-> "raised", data |-> NoObject, inner |-> p.msg,
              msg |-> <<"Failed to analyze resume: ">> \o p.msg,
              calls |-> r.calls, sleeps |-> r.sleeps]
        ELSE [kind |-> "returned", data |-> p.data, inner |-> <<>>, msg |-> <<>>,
              calls |-> r.calls, sleeps |-> r.sleeps]

call_gpt_analysis ==
    /\ gpt_in.phase = "ready"
    /\ gpt_out.phase = "idle"
    /\ LET r == call_gpt_analysis_result(gpt_in.script)
       IN  gpt_out' = [phase |-> "done", fn |-> "call_gpt_analysis",
                       max_attempts |-> DefaultMaxAttempts, kind |-> r.kind,
                       data |-> r.data, inner |-> r.inner, msg |-> r.msg,
                       calls |-> r.calls, sleeps |-> r.sleeps]
    /\ UNCHANGED <<lite, lite_last, pg, pg_last, gpt_in, ocr_in, ocr_out, iv_in, iv_out, calcVars, appVars>>

\* A direct call of the wrapper with the max_attempts of the input.
call_gpt_with_retry ==
    /\ gpt_in.phase = "ready"
    /\ gpt_out.phase = "idle"
    /\ LET r == call_gpt_with_retry_result(gpt_in.script, gpt_in.max_attempts)
       IN  gpt_out' = [phase |-> "done", fn |-> "_call_gpt_with_retry",
                       max_attempts |-> gpt_in.max_attempts, kind |-> r.kind,
                       data |-> r.content.obj, inner |-> r.msg, msg |-> r.msg,
                       calls |-> r.calls, sleeps |-> r.sleeps]
    /\ UNCHANGED <<lite, lite_last, pg, pg_last, gpt_in, ocr_in, ocr_out, iv_in, iv_out, calcVars, appVars>>

GptIdleOut ==
    [phase |-> "idle", fn |-> "", max_attempts |-> 0, kind |-> "", data |-> NoObject,
     inner |-> <<>>, msg |-> <<>>, calls |-> 0, sleeps |-> <<>>]

InitGpt ==
    /\ gpt_in \in [phase : {"ready"}, script : Scripts, max_attempts : 0..MaxAttempts]
    /\ gpt_out = GptIdleOut

(***************************************************************************)
(* OCR service call (src/parsing.py).                                      *)
(***************************************************************************)
max_retries == 2

retry_delay == 1

\* What one requests.post can end in: a status code (200 with text left after
\* strip(), 200 with none left), a Timeout, a ConnectionError, or another
\* exception of the HTTP library.
HttpOutcomes ==
    {"200", "200_empty", "429", "401", "400", "500", "timeout", "connection_error",
     "other_exception"}

\* Variant: HTTP 401 is retried like a rate limit.
IsRetryable_With401(o) == o \in {"429", "401", "timeout", "connection_error"}

\* The outcomes after which the loop may `continue`.
IsRetryable(o) == o \in {"429", "timeout", "connection_error"}

\* Variant: the flat retry_delay after HTTP 429 too.
RateLimitWait_Flat(attempt) == retry_delay

\* wait_time = retry_delay * (2 ** attempt), slept after HTTP 429
RateLimitWait(attempt) == retry_delay * (2 ^ attempt)

\* time.sleep(retry_delay) after a Timeout or a ConnectionError
ErrorWait(attempt) == retry_delay

\* The message of the exception raised inside the loop for outcome o.
OcrLoopError(o) ==
    IF o = "200_empty" THEN <<"Nutrient returned empty text">>
    ELSE IF o = "429" THEN <<"Rate limit exceeded, max retries reached">>
    ELSE IF o = "401" THEN <<"Invalid Nutrient API key">>
    ELSE IF o = "400" THEN <<"Nutrient API error: ", "Bad request">>
    ELSE IF o = "500" THEN <<"Nutrient API returned status ", "500">>
    ELSE IF o = "timeout" THEN <<"Nutrient API request timed out after retries">>
    ELSE IF o = "connection_error" THEN <<"Failed to connect to Nutrient API after retries">>
    ELSE <<"Too many redirects">>

RECURSIVE OcrLoop(_, _, _, _)
\* for attempt in range(max_retries + 1), from `attempt` on.
OcrLoop(script, attempt, requests, sleeps) ==
    IF attempt > max_retries
    THEN [kind |-> "raised", text |-> "", requests |-> requests, sleeps |-> sleeps,
          msg |-> <<"Nutrient OCR failed after all retry attempts">>]
    ELSE LET o == script[attempt + 1]
         IN  IF o = "200"
             THEN [kind |-> "returned", text |-> "extracted text",
                   requests |-> requests + 1, sleeps |-> sleeps, msg |-> <<>>]
             ELSE IF IsRetryable(o) /\ attempt < max_retries
             THEN OcrLoop(script, attempt + 1, requests + 1,
                          Append(sleeps, IF o = "429" THEN RateLimitWait(attempt)
                                         ELSE ErrorWait(attempt)))
             ELSE [kind |-> "raised", text |-> "", requests |-> requests + 1,
                   sleeps |-> sleeps, msg |-> OcrLoopError(o)]

\* except Exception as e around the upload: messages naming "File not found"
\* or "API key" pass unchanged, the others are prefixed.
OcrInnerWrap(msg) ==
    IF msg = <<"Invalid Nutrient API key">> THEN msg
    ELSE <<"Failed to process file for Nutrient OCR: ">> \o msg

\* call_nutrient_ocr(file_path, api_key)
call_nutrient_ocr_result(file_exists, api_key, script) ==
    IF ~file_exists
    THEN [kind |-> "raised", text |-> "", requests |-> 0, sleeps |-> <<>>,
          msg |-> <<"Nutrient OCR extraction failed: ", "File not found: ">>]
    ELSE IF api_key = ""
    THEN [kind |-> "raised", text |-> "", requests |-> 0, sleeps |-> <<>>,
          msg |-> <<"Nutrient OCR extraction failed: ", "Nutrient API key is required">>]
    ELSE LET r == OcrLoop(script, 0, 0, <<>>)
         IN  IF r.kind = "returned" THEN r
             ELSE [r EXCEPT !.msg = <<"Nutrient OCR extraction failed: ">> \o OcrInnerWrap(@)]

call_nutrient_ocr ==
    /\ ocr_in.phase = "ready"
    /\ ocr_out.phase = "idle"
    /\ LET r == call_nutrient_ocr_result(ocr_in.file_exists, ocr_in.api_key, ocr_in.script)
       IN  ocr_out' = [phase |-> "done", kind |-> r.kind, text |-> r.text, msg |-> r.msg,
                       requests |-> r.requests, sleeps |-> r.sleeps]
    /\ UNCHANGED <<lite, lite_last, pg, pg_last, gpt_in, gpt_out, ocr_in, iv_in, iv_out, calcVars, appVars>>

OcrIdleOut ==
    [phase |-> "idle", kind |-> "", text |-> "", msg |-> <<>>, requests |-> 0,
     sleeps |-> <<>>]

InitOcr ==
    /\ ocr_in \in [phase : {"ready"}, file_exists : BOOLEAN, api_key : {"", "pdf_live_key"},
                   script : [1..(max_retries + 1) -> HttpOutcomes]]
    /\ ocr_out = OcrIdleOut

(***************************************************************************)
(* Interview helpers and their fallbacks (src/ai_integration.py).          *)
(***************************************************************************)
MaxQuestions == 2   \* longest list of questions / of responses

\* Word counts of a response, on both sides of each scoring threshold.
WordCounts == {0, 9, 10, 29, 30, 59, 60}

\* What client.chat.completions.create ends in: an exception, a message
\* without content, or a text that is a JSON object, another JSON document,
\* prose around a parseable {...}, prose around an unparseable {...}, or
\* prose without braces.
LlmAnswers ==
    {"raise", "none_content", "json_object", "json_list", "embedded_object",
     "embedded_bad", "nojson"}

\* The try block up to the parsed JSON: the call, .strip(), json.loads and the
\* regex fallback.  "object" / "list": the parsed document; "failed": an
\* exception was raised inside the try block.
InterviewParse(llm) ==
    IF llm \in {"json_object", "embedded_object"} THEN "object"
    ELSE IF llm = "json_list" THEN "list"
    ELSE "failed"

SeqsUpTo(S, n) == UNION {[1..k -> S] : k \in 0..n}

\* Variant: the thresholds 10, 30 and 60 count for the lower score.
FallbackScore_Inclusive(response_length) ==
    IF response_length <= 10 THEN 40
    ELSE IF response_length <= 30 THEN 60
    ELSE IF response_length <= 60 THEN 75
    ELSE 85

\* The score of one response by its number of words.
FallbackScore(response_length) ==
    IF response_length < 10 THEN 40
    ELSE IF response_length < 30 THEN 60
    ELSE IF response_length < 60 THEN 75
    ELSE 85

RECURSIVE SumSeq(_)
SumSeq(q) == IF q = <<>> THEN 0 ELSE Head(q) + SumSeq(Tail(q))

\* "interview_performance" of the fallback evaluation.
interview_performance(overall_score) ==
    [communication |-> overall_score, relevance |-> overall_score - 5,
     confidence |-> overall_score - 10, specificity |-> overall_score - 15]

\* No interview_performance computed locally (the LLM's document, the
\* question banks, a raised exception).
NoPerformance ==
    [communication |-> 0, relevance |-> 0, confidence |-> 0, specificity |-> 0]

\* _generate_fallback_evaluation(questions, responses): scores the pairs of
\* zip(questions, responses), then total_score // len(questions).
generate_fallback_evaluation(nq, responses) ==
    LET n == Min(nq, Len(responses))
        scores == [i \in 1..n |-> FallbackScore(responses[i])]
    IN  IF nq = 0
        THEN [kind |-> "raised", source |-> "", err |-> "ZeroDivisionError",
              overall |-> 0, scores |-> scores, performance |-> NoPerformance]
        ELSE [kind |-> "returned", source |-> "fallback", err |-> "",
              overall |-> SumSeq(scores) \div nq, scores |-> scores,
              performance |-> interview_performance(SumSeq(scores) \div nq)]

\* _generate_fallback_interview_questions / _generate_fallback_mock_interview:
\* a fixed question bank built from dictionary lookups with defaults.
generate_fallback_questions ==
    [kind |-> "returned", source |-> "fallback", err |-> "", overall |-> 0, scores |-> <<>>,
     performance |-> NoPerformance]

FromLlm ==
    [kind |-> "returned", source |-> "llm", err |-> "", overall |-> 0, scores |-> <<>>,
     performance |-> NoPerformance]

\* generate_interview_questions: the parsed document is read with .get(), so
\* only a JSON object is accepted; everything else ends in the except branch.
generate_interview_questions_result(llm) ==
    IF InterviewParse(llm) = "object" THEN FromLlm ELSE generate_fallback_questions

\* conduct_mock_interview: returns the parsed document as it is.
conduct_mock_interview_result(llm) ==
    IF InterviewParse(llm) # "failed" THEN FromLlm ELSE generate_fallback_questions

\* evaluate_interview_responses: returns the parsed document as it is; the
\* except branch returns _generate_fallback_evaluation(questions, responses).
evaluate_interview_responses_result(nq, responses, llm) ==
    IF InterviewParse(llm) # "failed" THEN FromLlm
    ELSE generate_fallback_evaluation(nq, responses)

IvOut(fn, r) ==
    [phase |-> "done", fn |-> fn, kind |-> r.kind, source |-> r.source, err |-> r.err,
     overall |-> r.overall, scores |-> r.scores, performance |-> r.performance]

generate_interview_questions ==
    /\ iv_in.phase = "ready"
    /\ iv_out.phase = "idle"
    /\ iv_out' = IvOut("generate_interview_questions",
                       generate_interview_questions_result(iv_in.llm))
    /\ UNCHANGED <<lite, lite_last, pg, pg_last, gpt_in, gpt_out, ocr_in, ocr_out, iv_in, calcVars, appVars>>

conduct_mock_interview ==
    /\ iv_in.phase = "ready"
    /\ iv_out.phase = "idle"
    /\ iv_out' = IvOut("conduct_mock_interview", conduct_mock_interview_result(iv_in.llm))
    /\ UNCHANGED <<lite, lite_last, pg, pg_last, gpt_in, gpt_out, ocr_in, ocr_out, iv_in, calcVars, appVars>>

evaluate_interview_responses ==
    /\ iv_in.phase = "ready"
    /\ iv_out.phase = "idle"
    /\ iv_out' = IvOut("evaluate_interview_responses",
                       evaluate_interview_responses_result(iv_in.nq, iv_in.responses,
                                                           iv_in.llm))
    /\ UNCHANGED <<lite, lite_last, pg, pg_last, gpt_in, gpt_out, ocr_in, ocr_out, iv_in, calcVars, appVars>>

IvIdleOut ==
    [phase |-> "idle", fn |-> "", kind |-> "", source |-> "", err |-> "", overall |-> 0,
     scores |-> <<>>, performance |-> NoPerformance]

InitInterview ==
    /\ iv_in \in [phase : {"ready"}, nq : 0..MaxQuestions,
                  responses : SeqsUpTo(WordCounts, MaxQuestions), llm : LlmAnswers]
    /\ iv_out = IvIdleOut

(***************************************************************************)
(* Skill gap scoring (src/ai_integration.py, score_resume_vs_job).         *)
(* A skill is a string, modelled as the sequence of its characters.        *)
(***************************************************************************)
MaxResumeSkills == 2    \* longest resume skill list
MaxJobSkills == 3       \* longest job skill list

\* The skills the lists are drawn from: "java", "Java " (upper case and a
\* trailing blank), "javascript", "java ee" and "C".
SkillVocab ==
    { <<"j", "a", "v", "a">>,
      <<"J", "a", "v", "a", " ">>,
      <<"j", "a", "v", "a", "s", "c", "r", "i", "p", "t">>,
      <<"j", "a", "v", "a", " ", "e", "e">>,
      <<"C">> }

\* str.lower() on one character of the vocabulary.
LowerChar(c) == IF c = "J" THEN "j" ELSE IF c = "C" THEN "c" ELSE c

RECURSIVE LStrip(_)
LStrip(t) == IF t # <<>> /\ Head(t) = " " THEN LStrip(Tail(t)) ELSE t

RECURSIVE RStrip(_)
RStrip(t) ==
    IF t # <<>> /\ t[Len(t)] = " " THEN RStrip(SubSeq(t, 1, Len(t) - 1)) ELSE t

\* skill.lower().strip()
Normalize(skill) == RStrip(LStrip([i \in 1..Len(skill) |-> LowerChar(skill[i])]))

\* Python's `needle in hay` on strings.
Contains(hay, needle) ==
    \E i \in 0..(Len(hay) - Len(needle)) : SubSeq(hay, i + 1, i + Len(needle)) = needle

InSeq(x, q) == \E i \in 1..Len(q) : q[i] = x

\* Variant: the exact matches kept without repetition (a job skill listed
\* twice is matched once).
ExactMatches_Distinct(resume_skills_norm, job_skills_norm) ==
    LET idx == {i \in 1..Len(job_skills_norm) :
                   /\ InSeq(job_skills_norm[i], resume_skills_norm)
                   /\ \A k \in 1..(i - 1) : job_skills_norm[k] # job_skills_norm[i]}
    IN  [n \in 1..Cardinality(idx) |->
            job_skills_norm[CHOOSE i \in idx :
                               Cardinality({k \in idx : k <= i}) = n]]

\* exact_matches: every job skill (in order, repetitions kept) that equals
\* some resume skill.
ExactMatches(resume_skills_norm, job_skills_norm) ==
    SelectSeq(job_skills_norm, LAMBDA j : InSeq(j, resume_skills_norm))

\* Variant: no special case for "java" against "javascript".
JavaCarveOut_Off(job_skill, resume_skill) == FALSE

\* job_skill == "java" and "javascript" in resume_skill
JavaCarveOut(job_skill, resume_skill) ==
    /\ job_skill = <<"j", "a", "v", "a">>
    /\ Contains(resume_skill, <<"j", "a", "v", "a", "s", "c", "r", "i", "p", "t">>)

\* The test the inner loop makes on one (job skill, resume skill) pair.
PartialPair(job_skill, resume_skill) ==
    /\ job_skill # resume_skill
    /\ Len(job_skill) > 3
    /\ Contains(resume_skill, job_skill) \/ Contains(job_skill, resume_skill)
    /\ ~JavaCarveOut(job_skill, resume_skill)

\* partial_matches: every job skill not among the exact matches for which
\* some resume skill passes the pair test (appended once, then break).
PartialMatches(resume_skills_norm, job_skills_norm, exact_matches) ==
    SelectSeq(job_skills_norm,
              LAMBDA j : /\ ~InSeq(j, exact_matches)
                         /\ \E i \in 1..Len(resume_skills_norm) :
                               PartialPair(j, resume_skills_norm[i]))

\* Variant: rounds n / d to the nearest integer (halves to the even one).
Truncate_Round(n, d) ==
    LET q == n \div d
        r == n % d
    IN  IF 2 * r > d THEN q + 1
        ELSE IF 2 * r < d THEN q
        ELSE IF q % 2 = 0 THEN q ELSE q + 1

\* int(x) of the non-negative quotient n / d: the fraction is dropped.
Truncate(n, d) == n \div d

\* score_resume_vs_job(resume_skills, job_skills).  The weights 1.0 and 0.5
\* are counted in halves: total_score = (2 * exact + partial) / 2.
score_resume_vs_job_result(resume_skills, job_skills) ==
    LET resume_skills_norm == [i \in 1..Len(resume_skills) |-> Normalize(resume_skills[i])]
        job_skills_norm == [i \in 1..Len(job_skills) |-> Normalize(job_skills[i])]
        exact_matches == ExactMatches(resume_skills_norm, job_skills_norm)
        partial_matches == PartialMatches(resume_skills_norm, job_skills_norm, exact_matches)
        all_matches_norm == exact_matches \o partial_matches
        total_halves == 2 * Len(exact_matches) + Len(partial_matches)
        max_possible_score == Len(job_skills_norm)
    IN  IF resume_skills = <<>> \/ job_skills = <<>>
        THEN [compatibility_score |-> 0, missing_skills |-> job_skills,
              matching_skills |-> <<>>, exact_matches |-> <<>>, partial_matches |-> <<>>]
        ELSE [compatibility_score |->
                  IF max_possible_score > 0
                  THEN Truncate(total_halves * 100, 2 * max_possible_score)
                  ELSE 0,
              missing_skills |->
                  SelectSeq(job_skills, LAMBDA sk : ~InSeq(Normalize(sk), all_matches_norm)),
              matching_skills |->
                  SelectSeq(job_skills, LAMBDA sk : InSeq(Normalize(sk), all_matches_norm)),
              exact_matches |-> exact_matches,
              partial_matches |-> partial_matches]

score_resume_vs_job ==
    /\ sk_in.phase = "ready"
    /\ sk_out.phase = "idle"
    /\ LET r == score_resume_vs_job_result(sk_in.resume_skills, sk_in.job_skills)
       IN  sk_out' = [phase |-> "done", compatibility_score |-> r.compatibility_score,
                      missing_skills |-> r.missing_skills,
                      matching_skills |-> r.matching_skills,
                      exact_matches |-> r.exact_matches,
                      partial_matches |-> r.partial_matches]
    /\ UNCHANGED <<baseVars, appVars, sk_in, ps_in, ps_out, td_in, td_out, hist, hist_last>>

InitSkills ==
    /\ sk_in \in [phase : {"ready"},
                  resume_skills : SeqsUpTo(SkillVocab, MaxResumeSkills),
                  job_skills : SeqsUpTo(SkillVocab, MaxJobSkills)]
    /\ sk_out = [phase |-> "idle"]

(***************************************************************************)
(* Pitch script (src/ai_integration.py, generate_pitch_script).            *)
(* Times are in seconds (2.0 is written 2).                                *)
(***************************************************************************)
MaxStrengths == 2       \* longest strengths list of a payload

\* one_sentence_pitch: the key is absent, the string is empty, it names a
\* person ("I'm John Smith, ..."), it matches no pattern ("I am a developer"),
\* or it matches with a generic term ("Hi, I'm a student").
PitchKinds == {"absent", "empty", "named", "unmatched", "generic"}

\* Lengths of top_skills (0: the key is absent or the list is empty).
TopSkillCounts == {0, 1, 3, 4}

\* The evidence of one strength: key absent, empty string, a text with a
\* digit, a text with an impact word and no digit, another text.
EvidenceKinds == {"absent", "empty", "digit", "impact", "plain"}

\* _extract_name_from_pitch(pitch)
extract_name_from_pitch(pitch) ==
    IF pitch = "named" THEN "John Smith" ELSE "a professional"

\* ", ".join(top_skills[:3]) or the default text, by the number of skills named.
SkillsText(n) ==
    IF n = 0 THEN <<"multiple technical skills">>
    ELSE [i \in 1..Min(n, 3) |-> "skill"]

RECURSIVE FirstOfKind(_, _, _)
\* The first strength from i on whose evidence is of kind k (0: none).
FirstOfKind(strengths, k, i) ==
    IF i > Len(strengths) THEN 0
    ELSE IF strengths[i] = k THEN i
    ELSE FirstOfKind(strengths, k, i + 1)

\* _extract_best_achievement(strengths): which text it returns.
extract_best_achievement(strengths) ==
    IF strengths = <<>> THEN <<"with proven results and strong performance">>
    ELSE IF FirstOfKind(strengths, "digit", 1) # 0
    THEN <<"I ", "evidence", FirstOfKind(strengths, "digit", 1)>>
    ELSE IF FirstOfKind(strengths, "impact", 1) # 0
    THEN <<"I ", "evidence", FirstOfKind(strengths, "impact", 1)>>
    ELSE IF strengths[1] = "absent" THEN <<"I ", "with proven results">>
    ELSE IF strengths[1] = "empty" THEN <<"with proven results and strong performance">>
    ELSE <<"I ", "evidence", 1>>

\* Variant: the skills segment lasts 3 seconds, the later segments keep
\* their start times.
ScriptTiming_ShortSkills ==
    [intro |-> [start_time |-> 0, duration |-> 2],
     skills |-> [start_time |-> 2, duration |-> 3],
     achievement |-> [start_time |-> 6, duration |-> 3],
     closing |-> [start_time |-> 9, duration |-> 1]]

\* The start_time and duration literals of the script.
ScriptTiming ==
    [intro |-> [start_time |-> 0, duration |-> 2],
     skills |-> [start_time |-> 2, duration |-> 4],
     achievement |-> [start_time |-> 6, duration |-> 3],
     closing |-> [start_time |-> 9, duration |-> 1]]

\* The keys of the script in the order of the dict literal.
ScriptKeys == <<"intro", "skills", "achievement", "closing">>

\* generate_pitch_script(analysis_data): the segments in dict order.  The
\* texts pass _clean_text_for_video, which never returns an empty text for
\* the non-empty texts built here.
generate_pitch_script_result(pitch, top_skills, strengths) ==
    LET name == extract_name_from_pitch(pitch)
        text == [intro |-> <<"Hi, I'm ", name>>,
                 skills |-> <<"Expert in ">> \o SkillsText(top_skills),
                 achievement |-> extract_best_achievement(strengths),
                 closing |-> <<"Let's connect!">>]
    IN  [i \in 1..Len(ScriptKeys) |->
            [name |-> ScriptKeys[i], text |-> text[ScriptKeys[i]],
             start_time |-> ScriptTiming[ScriptKeys[i]].start_time,
             duration |-> ScriptTiming[ScriptKeys[i]].duration]]

generate_pitch_script ==
    /\ ps_in.phase = "ready"
    /\ ps_out.phase = "idle"
    /\ ps_out' = [phase |-> "done",
                  script |-> generate_pitch_script_result(ps_in.pitch, ps_in.top_skills,
                                                          ps_in.strengths)]
    /\ UNCHANGED <<baseVars, appVars, sk_in, sk_out, ps_in, td_in, td_out, hist, hist_last>>

InitPitch ==
    /\ ps_in \in [phase : {"ready"}, pitch : PitchKinds, top_skills : TopSkillCounts,
                  strengths : SeqsUpTo(EvidenceKinds, MaxStrengths)]
    /\ ps_out = [phase |-> "idle"]

(***************************************************************************)
(* Timing distribution (src/tts_video.py, _calculate_timing_distribution). *)
(* Durations are exact fractions: total_duration is counted in half        *)
(* seconds, the start times and durations of one result are numerators     *)
(* over the common denominator `den` of that result.                       *)
(***************************************************************************)
MaxWords == 3           \* most words in the text of one segment

\* The keys script_parts may hold, in the order the loop visits them.
TimingOrder == <<"intro", "skills", "achievement", "closing">>

SegmentNames == {TimingOrder[i] : i \in 1..Len(TimingOrder)}

\* timing_weights, in twentieths: 0.25, 0.40, 0.25, 0.10.
timing_weights == [intro |-> 5, skills |-> 8, achievement |-> 5, closing |-> 2]

\* total_duration in half seconds: 1.0, 5.0, 7.5 and 10.0 seconds.
TotalDurations == {2, 10, 15, 20}

Max(a, b) == IF a > b THEN a ELSE b

\* Variant: the final normalization pass is never run.
RescaleNeeded_Never(actual_total, total_duration) == FALSE

\* if actual_total != total_duration
RescaleNeeded(actual_total, total_duration) == actual_total # total_duration

\* _calculate_timing_distribution(script_parts, total_duration);
\* present: the keys of script_parts, words[n]: len(text.split()) of segment n,
\* total: total_duration in half seconds.
calculate_timing_distribution_result(present, words, total) ==
    LET available_segments == SelectSeq(TimingOrder, LAMBDA n : n \in present)
        n_seg == Len(available_segments)
        total_content_length == SumSeq([i \in 1..n_seg |-> words[available_segments[i]]])
        total_weight == SumSeq([i \in 1..n_seg |-> timing_weights[available_segments[i]]])
        \* adjusted_duration of a segment, over the denominator den1
        den1 == IF total_content_length > 0
                THEN 20 * total_weight * total_content_length
                ELSE 20 * total_weight
        adjusted(n) ==
            IF total_content_length > 0
            THEN total * (7 * timing_weights[n] * total_content_length
                          + 3 * words[n] * total_weight)
            ELSE 10 * total * timing_weights[n]
        \* max(0.5, adjusted_duration), over the denominator 2 * den1
        floored == [i \in 1..n_seg |-> Max(den1, 2 * adjusted(available_segments[i]))]
        actual_total == SumSeq(floored)
        \* actual_total / (2 * den1) against total / 2
        rescale == RescaleNeeded(actual_total, total * den1)
        \* duration *= total_duration / actual_total
        duration == [i \in 1..n_seg |-> IF rescale THEN floored[i] * total ELSE floored[i]]
        den == IF rescale THEN 2 * actual_total ELSE 2 * den1
    IN  IF n_seg = 1
        THEN [kind |-> "returned", den |-> 2,
              timing |-> <<[name |-> available_segments[1], start_time |-> 0,
                            duration |-> total]>>]
        ELSE IF n_seg = 0
        THEN [kind |-> "ZeroDivisionError", den |-> 1, timing |-> <<>>]
        ELSE [kind |-> "returned", den |-> den,
              timing |-> [i \in 1..n_seg |->
                            [name |-> available_segments[i],
                             start_time |-> SumSeq(SubSeq(duration, 1, i - 1)),
                             duration |-> duration[i]]]]

calculate_timing_distribution ==
    /\ td_in.phase = "ready"
    /\ td_out.phase = "idle"
    /\ LET r == calculate_timing_distribution_result(td_in.present, td_in.words, td_in.total)
       IN  td_out' = [phase |-> "done", kind |-> r.kind, den |-> r.den, timing |-> r.timing]
    /\ UNCHANGED <<baseVars, appVars, sk_in, sk_out, ps_in, ps_out, td_in, hist, hist_last>>

\* Any subset of the four segments (the empty dict included), any word count
\* for a segment that is present.
InitTiming ==
    /\ td_in \in {[phase |-> "ready", present |-> p, words |-> w, total |-> t] :
                     p \in SUBSET SegmentNames,
                     w \in [SegmentNames -> 0..MaxWords],
                     t \in TotalDurations}
    /\ \A n \in SegmentNames \ td_in.present : td_in.words[n] = 0
    /\ td_out = [phase |-> "idle"]

(***************************************************************************)
(* Stored analysis contents and the history read (src/db.py).              *)
(* A string is the sequence of its characters; "e-acute" stands for one    *)
(* non-ASCII character.  A JSON text is the sequence of its characters.    *)
(***************************************************************************)
DefaultLimit == 50

StrA == <<"a">>

StrQuote == <<"\"", "a">>

StrBackslash == <<"\\", "e-acute">>

\* Analysis payloads handed to store_cv_analysis: all lists empty; plain
\* one-item lists; items with a quote, a backslash, a non-ASCII character and
\* an empty string; an empty pitch.
Payloads ==
    { [strengths |-> <<>>, weak_points |-> <<>>, suggestions |-> <<>>,
       top_skills |-> <<>>, one_sentence_pitch |-> StrA],
      [strengths |-> <<StrA>>, weak_points |-> <<StrA>>, suggestions |-> <<StrA>>,
       top_skills |-> <<StrA, StrA>>, one_sentence_pitch |-> StrA],
      [strengths |-> <<StrQuote, StrBackslash>>, weak_points |-> << <<>> >>,
       suggestions |-> <<StrQuote>>, top_skills |-> <<StrBackslash>>,
       one_sentence_pitch |-> StrQuote],
      [strengths |-> <<StrA>>, weak_points |-> <<>>, suggestions |-> <<StrA>>,
       top_skills |-> <<StrA>>, one_sentence_pitch |-> <<>>] }

\* json.dumps of one character of a string (ensure_ascii).
EscapeChar(c) ==
    IF c = "\"" THEN <<"\\", "\"">>
    ELSE IF c = "\\" THEN <<"\\", "\\">>
    ELSE IF c = "e-acute" THEN <<"\\", "u", "0", "0", "e", "9">>
    ELSE <<c>>

RECURSIVE DumpChars(_)
DumpChars(str) == IF str = <<>> THEN <<>> ELSE EscapeChar(Head(str)) \o DumpChars(Tail(str))

DumpString(str) == <<"\"">> \o DumpChars(str) \o <<"\"">>

RECURSIVE DumpItems(_)
DumpItems(lst) ==
    IF lst = <<>> THEN <<>>
    ELSE IF Len(lst) = 1 THEN DumpString(lst[1])
    ELSE DumpString(lst[1]) \o <<",", " ">> \o DumpItems(Tail(lst))

\* json.dumps(list of strings)
json_dumps(lst) == <<"[">> \o DumpItems(lst) \o <<"]">>

RECURSIVE LoadString(_, _, _)
\* Reads a string whose opening quote is before position i; returns the
\* string and the position after its closing quote.
LoadString(t, i, acc) ==
    IF t[i] = "\"" THEN [val |-> acc, next |-> i + 1]
    ELSE IF t[i] = "\\"
    THEN IF t[i + 1] = "u"
         THEN LoadString(t, i + 6,
                         Append(acc, IF SubSeq(t, i + 2, i + 5) = <<"0", "0", "e", "9">>
                                     THEN "e-acute" ELSE "?"))
         ELSE LoadString(t, i + 2, Append(acc, t[i + 1]))
    ELSE LoadString(t, i + 1, Append(acc, t[i]))

RECURSIVE LoadItems(_, _, _)
\* Reads the items of a list from position i (an opening quote) on.
LoadItems(t, i, acc) ==
    LET item == LoadString(t, i + 1, <<>>)
    IN  IF t[item.next] = ","
        THEN LoadItems(t, item.next + 2, Append(acc, item.val))
        ELSE Append(acc, item.val)

\* json.loads(text) of a JSON list of strings
json_loads(t) == IF t[2] = "]" THEN <<>> ELSE LoadItems(t, 2, <<>>)

HistEmpty == [cv |-> {}, ar |-> {}, seq_cv |-> 0, seq_ar |-> 0, now |-> 0, stored |-> <<>>]

\* The analysis_results row store_cv_analysis inserts for cv_id: the four
\* lists as JSON text, the pitch as it is.
AnalysisRow(db, cv_id, analysis_data) ==
    [id |-> db.seq_ar + 1, cv_id |-> cv_id,
     strengths |-> json_dumps(analysis_data.strengths),
     weak_points |-> json_dumps(analysis_data.weak_points),
     suggestions |-> json_dumps(analysis_data.suggestions),
     top_skills |-> json_dumps(analysis_data.top_skills),
     one_sentence_pitch |-> analysis_data.one_sentence_pitch]

\* db.store_cv_analysis with the contents of the rows.  created_at is
\* CURRENT_TIMESTAMP: the second of the previous insert or a later one.
\* `stored` remembers what was handed in for each id (not part of the tables).
history_store_cv_analysis ==
    /\ hist.seq_cv < MaxCv
    /\ \E analysis_data \in Payloads, tick \in 0..1, fail \in BOOLEAN :
        LET cv_id == hist.seq_cv + 1
        IN  IF fail
            THEN /\ hist' = LiteConnExit(hist, hist, TRUE)
                 /\ hist_last' = [op |-> "store_cv_analysis", id |-> 0, ret |-> "raised",
                                  limit |-> 0, result |-> <<>>]
            ELSE /\ hist' = LiteConnExit(hist,
                              [hist EXCEPT
                                 !.cv = @ \cup {[id |-> cv_id, created_at |-> hist.now + tick]},
                                 !.ar = @ \cup {AnalysisRow(hist, cv_id, analysis_data)},
                                 !.seq_cv = @ + 1, !.seq_ar = @ + 1,
                                 !.now = @ + tick,
                                 !.stored = Append(@, analysis_data)],
                              FALSE)
                 /\ hist_last' = [op |-> "store_cv_analysis", id |-> cv_id,
                                  ret |-> "returned", limit |-> 0, result |-> <<>>]
    /\ UNCHANGED <<baseVars, appVars, sk_in, sk_out, ps_in, ps_out, td_in, td_out>>

\* db.delete_cv_record on the same tables: the analysis_results row stays
\* (PragmaForeignKeys).
history_delete_cv_record ==
    /\ \E cv_id \in 1..MaxCv :
        /\ hist' = [hist EXCEPT
                      !.cv = {r \in @ : r.id # cv_id},
                      !.ar = IF PragmaForeignKeys THEN {r \in @ : r.cv_id # cv_id} ELSE @]
        /\ hist_last' = [op |-> "delete_cv_record", id |-> cv_id,
                         ret |-> IF \E r \in hist.cv : r.id = cv_id THEN "True" ELSE "False",
                         limit |-> 0, result |-> <<>>]
    /\ UNCHANGED <<baseVars, appVars, sk_in, sk_out, ps_in, ps_out, td_in, td_out>>

\* Variant: the analysis is attached when the parsed strengths list is
\* non-empty.
HasAnalysis_ParsedList(row) == row.ar # {} /\ \E a \in row.ar : json_loads(a.strengths) # <<>>

\* if row['strengths']: the column is NULL (no joined row) or an empty text.
HasAnalysis(row) == row.ar # {} /\ \E a \in row.ar : a.strengths # <<>>

\* FROM cv_records cv LEFT JOIN analysis_results ar ON cv.id = ar.cv_id
LeftJoin(db) ==
    {[cv |-> p[1], ar |-> {p[2]}] : p \in {x \in db.cv \X db.ar : x[2].cv_id = x[1].id}} \cup
    {[cv |-> c, ar |-> {}] : c \in {x \in db.cv : \A a \in db.ar : a.cv_id # x.id}}

\* The record built for one row of the result set.
HistoryRecord(row) ==
    IF HasAnalysis(row)
    THEN LET a == CHOOSE x \in row.ar : TRUE
         IN  [id |-> row.cv.id, has_analysis |-> TRUE,
              analysis |-> [strengths |-> json_loads(a.strengths),
                            weak_points |-> json_loads(a.weak_points),
                            suggestions |-> json_loads(a.suggestions),
                            top_skills |-> json_loads(a.top_skills),
                            one_sentence_pitch |-> a.one_sentence_pitch]]
    ELSE [id |-> row.cv.id, has_analysis |-> FALSE, analysis |-> <<>>]

\* The orders ORDER BY cv.created_at DESC allows (rows of one second in any
\* order).
OrderedByCreatedAtDesc(rows) ==
    {q \in [1..Cardinality(rows) -> rows] :
        /\ \A i, j \in 1..Cardinality(rows) : i # j => q[i] # q[j]
        /\ \A i, j \in 1..Cardinality(rows) :
              i < j => q[i].cv.created_at >= q[j].cv.created_at}

\* db.get_analysis_history(limit)
db_get_analysis_history ==
    /\ \E limit \in {1, DefaultLimit} :
        \E q \in OrderedByCreatedAtDesc(LeftJoin(hist)) :
            hist_last' = [op |-> "get_analysis_history", id |-> 0, ret |-> "returned",
                          limit |-> limit,
                          result |-> [i \in 1..Min(limit, Len(q)) |-> HistoryRecord(q[i])]]
    /\ hist' = hist
    /\ UNCHANGED <<baseVars, appVars, sk_in, sk_out, ps_in, ps_out, td_in, td_out>>

InitHistory ==
    /\ hist = HistEmpty
    /\ hist_last = [op |-> "none", id |-> 0, ret |-> "none", limit |-> 0, result |-> <<>>]

(***************************************************************************)
(* Full-text search of the embedded store (src/db.py): cv_records, the     *)
(* cv_search index and the three triggers that maintain it.  A filename    *)
(* or text is the sequence of its words.                                   *)
(***************************************************************************)
Filenames == {<<"Alpha", "pdf">>, <<"beta", "pdf">>}

ResumeTexts == {<<"Python">>, <<"java">>, <<"rust", "java">>}

\* The terms a search is made with.
Queries == {"python", "java", "alpha", "pdf"}

\* The index stores terms case-folded (fts5 default tokenizer).
Fold(word) ==
    IF word = "Python" THEN "python"
    ELSE IF word = "Alpha" THEN "alpha"
    ELSE word

\* The index entries of one row: one per word of the filename and of the text.
Entries(rowid, filename, original_text) ==
    {[rowid |-> rowid, col |-> "filename", pos |-> i, term |-> Fold(filename[i])] :
        i \in 1..Len(filename)}
    \cup
    {[rowid |-> rowid, col |-> "original_text", pos |-> i, term |-> Fold(original_text[i])] :
        i \in 1..Len(original_text)}

\* INSERT INTO cv_search(rowid, filename, original_text) VALUES (...)
IndexInsert(idx, rowid, filename, original_text) ==
    idx \cup Entries(rowid, filename, original_text)

\* INSERT INTO cv_search(cv_search, rowid, filename, original_text)
\* VALUES('delete', ...): removes the entries of the values it is given.
IndexDelete(idx, rowid, filename, original_text) ==
    idx \ Entries(rowid, filename, original_text)

\* Trigger cv_search_insert, AFTER INSERT ON cv_records.
cv_search_insert(idx, new) ==
    IndexInsert(idx, new.id, new.filename, new.original_text)

\* Trigger cv_search_delete, AFTER DELETE ON cv_records.
cv_search_delete(idx, old) ==
    IndexDelete(idx, old.id, old.filename, old.original_text)

\* Variant: the update only adds the new values to the index.
cv_search_update_InsertOnly(idx, old, new) ==
    IndexInsert(idx, new.id, new.filename, new.original_text)

\* Trigger cv_search_update, AFTER UPDATE ON cv_records.
cv_search_update(idx, old, new) ==
    IndexInsert(IndexDelete(idx, old.id, old.filename, old.original_text),
                new.id, new.filename, new.original_text)

FtsEmpty == [phase |-> "on", cv |-> {}, idx |-> {}, seq_cv |-> 0]

NoFtsCall == [phase |-> "on", op |-> "none", id |-> 0, query |-> "", ret |-> "none", ids |-> {}]

\* store_cv_analysis: the cv_records insert fires cv_search_insert in the
\* same transaction; a failure of the analysis_results insert rolls both back.
fts_store_cv_analysis ==
    /\ fts.phase = "on"
    /\ fts.seq_cv < MaxCv
    /\ \E filename \in Filenames, resume_text \in ResumeTexts, fail \in BOOLEAN :
        LET new == [id |-> fts.seq_cv + 1, filename |-> filename,
                    original_text |-> resume_text, language |-> "en",
                    updated |-> FALSE]
            working == [fts EXCEPT !.cv = @ \cup {new},
                                   !.idx = cv_search_insert(@, new),
                                   !.seq_cv = @ + 1]
        IN  /\ fts' = LiteConnExit(fts, working, fail)
            /\ fts_last' = [NoFtsCall EXCEPT !.op = "store_cv_analysis", !.id = new.id,
                                             !.ret = IF fail THEN "raised" ELSE "returned"]
    /\ UNCHANGED <<baseVars, calcVars, vg_in, vg_out, sess, sess_last, tts_in, tts_out,
                   gs_in, gs_out, conn, conn_last>>

\* The "updates" dictionaries update_cv_record is called with: a field that
\* is not in the dictionary is <<>> (for the language, "keep"); NoValidFields
\* holds only keys that are ignored.
NoValidFields == [filename |-> <<>>, original_text |-> <<>>, language |-> "keep"]

UpdateChoices ==
    {NoValidFields}
    \cup {[NoValidFields EXCEPT !.filename = f] : f \in Filenames}
    \cup {[NoValidFields EXCEPT !.original_text = t] : t \in ResumeTexts}
    \cup {[NoValidFields EXCEPT !.language = "fr"]}

\* UPDATE cv_records SET ..., updated_at = CURRENT_TIMESTAMP on one row.
UpdatedRow(old, updates) ==
    [old EXCEPT !.filename = IF updates.filename = <<>> THEN @ ELSE updates.filename,
                !.original_text =
                    IF updates.original_text = <<>> THEN @ ELSE updates.original_text,
                !.language = IF updates.language = "keep" THEN @ ELSE updates.language,
                !.updated = TRUE]

\* update_cv_record: False without a valid field or a matching row; otherwise
\* the row is updated and cv_search_update fires for it.
fts_update_cv_record ==
    /\ fts.phase = "on"
    /\ \E cv_id \in 1..MaxCv, updates \in UpdateChoices :
        LET rows == {r \in fts.cv : r.id = cv_id}
        IN  IF updates = NoValidFields \/ rows = {}
            THEN /\ fts' = fts
                 /\ fts_last' = [NoFtsCall EXCEPT !.op = "update_cv_record",
                                                  !.id = cv_id, !.ret = "False"]
            ELSE LET old == CHOOSE r \in rows : TRUE
                     new == UpdatedRow(old, updates)
                 IN  /\ fts' = [fts EXCEPT !.cv = (@ \ {old}) \cup {new},
                                           !.idx = cv_search_update(@, old, new)]
                     /\ fts_last' = [NoFtsCall EXCEPT !.op = "update_cv_record",
                                                      !.id = cv_id, !.ret = "True"]
    /\ UNCHANGED <<baseVars, calcVars, vg_in, vg_out, sess, sess_last, tts_in, tts_out,
                   gs_in, gs_out, conn, conn_last>>

\* DELETE FROM cv_records for a set of rows: cv_search_delete fires for each.
RECURSIVE DeleteRows(_, _)
DeleteRows(db, rows) ==
    IF rows = {} THEN db
    ELSE LET old == CHOOSE r \in rows : TRUE
         IN  DeleteRows([db EXCEPT !.cv = @ \ {old}, !.idx = cv_search_delete(@, old)],
                        rows \ {old})

\* delete_cv_record: True when a row was deleted.
fts_delete_cv_record ==
    /\ fts.phase = "on"
    /\ \E cv_id \in 1..MaxCv :
        LET rows == {r \in fts.cv : r.id = cv_id}
        IN  /\ fts' = DeleteRows(fts, rows)
            /\ fts_last' = [NoFtsCall EXCEPT !.op = "delete_cv_record", !.id = cv_id,
                                             !.ret = IF rows = {} THEN "False" ELSE "True"]
    /\ UNCHANGED <<baseVars, calcVars, vg_in, vg_out, sess, sess_last, tts_in, tts_out,
                   gs_in, gs_out, conn, conn_last>>

\* cleanup_old_records: deletes the rows created before the cutoff.  Rows get
\* created_at in id order, so these are the rows with the lowest ids.
fts_cleanup_old_records ==
    /\ fts.phase = "on"
    /\ \E newest_old \in 0..MaxCv :
        LET rows == {r \in fts.cv : r.id <= newest_old}
        IN  /\ fts' = DeleteRows(fts, rows)
            /\ fts_last' = [NoFtsCall EXCEPT !.op = "cleanup_old_records",
                                             !.id = Cardinality(rows), !.ret = "returned"]
    /\ UNCHANGED <<baseVars, calcVars, vg_in, vg_out, sess, sess_last, tts_in, tts_out,
                   gs_in, gs_out, conn, conn_last>>

\* search_analysis_history: FROM cv_search JOIN cv_records cv ON
\* cv_search.rowid = cv.id WHERE cv_search MATCH query.
SearchIds(db, query) ==
    {r.id : r \in {x \in db.cv : \E e \in db.idx : e.rowid = x.id /\ e.term = query}}

search_analysis_history ==
    /\ fts.phase = "on"
    /\ \E query \in Queries :
        fts_last' = [NoFtsCall EXCEPT !.op = "search_analysis_history", !.query = query,
                                      !.ret = "returned", !.ids = SearchIds(fts, query)]
    /\ UNCHANGED <<baseVars, calcVars, fts, vg_in, vg_out, sess, sess_last, tts_in,
                   tts_out, gs_in, gs_out, conn, conn_last>>

InitSearch == fts = FtsEmpty /\ fts_last = NoFtsCall


(***************************************************************************)
(* Video entry points: generate_pitch_video of the application             *)
(* (src/app.py) and generate_video_with_fallback (src/gemini_video.py).    *)
(***************************************************************************)
VideoTypes == {"General Pitch", "Job-Specific Pitch", "Interview Preparation"}

VideoEntries == {"generate_pitch_video", "generate_video_with_fallback"}

\* What the plain path does: the script is empty, or the TTS/moviepy call
\* raises, or returns a path with or without a file behind it.
PlainOutcomes == {"file", "no_file", "raises", "no_script"}

\* init_gemini_client: raises without GEMINI_API_KEY / GEMINI_PROJECT_ID or
\* when the platform initialisation fails.
init_gemini_client(configured) == IF configured THEN "client" ELSE "raises"

\* is_gemini_available: False when the configuration is missing or the
\* client cannot be initialised.
is_gemini_available(configured) == init_gemini_client(configured) # "raises"

\* The keys of the dictionary generate_video_with_gemini returns.
GeminiResponseKeys == {"job_id", "status", "estimated_completion", "output_path"}

\* generate_video_with_gemini: raises when the client cannot be initialised
\* or when building the request raises; otherwise a 'processing' job.
generate_video_with_gemini(configured, gemini) ==
    IF init_gemini_client(configured) = "raises" \/ gemini = "raises"
    THEN [ret |-> "raised", keys |-> {}, status |-> "none"]
    ELSE [ret |-> "returned", keys |-> GeminiResponseKeys, status |-> "processing"]

\* create_interview_prep_video: the Gemini result plus interview metadata.
create_interview_prep_video(configured, gemini) ==
    LET result == generate_video_with_gemini(configured, gemini)
    IN  IF result.ret = "raised" THEN result
        ELSE [result EXCEPT !.keys = @ \cup {"interview_focus", "practice_tips",
                                             "key_talking_points",
                                             "recommended_practice_time"}]

\* The required positional parameters of create_job_specific_video
\* (cv_analysis, job_analysis, optimization_advice, student_info).
JobVideoRequiredArgs == 4

\* create_job_specific_video called with nargs positional arguments: a call
\* with fewer than the required ones raises TypeError.
create_job_specific_video(nargs, configured, gemini) ==
    IF nargs < JobVideoRequiredArgs
    THEN [ret |-> "raised", keys |-> {}, status |-> "none"]
    ELSE LET result == generate_video_with_gemini(configured, gemini)
         IN  IF result.ret = "raised" THEN result
             ELSE [result EXCEPT !.keys = @ \cup {"job_title", "job_match_score",
                                                  "key_improvements",
                                                  "interview_focus_areas",
                                                  "tailoring_applied"}]

\* The positional arguments generate_pitch_video passes to the video
\* builders: (analysis_results, job_analysis, industry_style).
AppBuilderArgs == 3

\* "if video_path and os.path.exists(video_path)" on what the builder
\* returned: os.path.exists raises TypeError on a dictionary.
GeminiFileCheck(result) ==
    IF result.ret = "raised" THEN "raises"
    ELSE IF result.keys = {} THEN "falsy"
    ELSE "raises"

\* The Gemini attempt of generate_pitch_video: "usable" when it returned a
\* path to an existing file, "none" when it raised or gave no usable file.
AppGeminiAttempt(video_type, import_ok, configured, gemini) ==
    LET result == IF ~import_ok THEN [ret |-> "raised", keys |-> {}, status |-> "none"]
                  ELSE IF video_type = "Job-Specific Pitch"
                  THEN create_job_specific_video(AppBuilderArgs, configured, gemini)
                  ELSE create_interview_prep_video(configured, gemini)
    IN  IF GeminiFileCheck(result) = "exists" THEN "usable" ELSE "none"

\* The plain path of generate_pitch_video: generate_pitch_script, then
\* tts_video.generate_pitch_video; an exception is turned into ("", message).
AppPlainPath(plain) ==
    IF plain = "no_script" THEN [video |-> FALSE, message |-> "Failed to generate pitch script"]
    ELSE IF plain = "raises" THEN [video |-> FALSE, message |-> "Video generation failed"]
    ELSE IF plain = "file" THEN [video |-> TRUE, message |-> "generated successfully"]
    ELSE [video |-> FALSE, message |-> "Video file was not created"]

\* app.generate_pitch_video: the paths it tried, in order, and its result.
generate_pitch_video_result(in) ==
    LET attempt == (in.video_type = "Job-Specific Pitch" /\ in.job_analysis)
                   \/ (in.video_type = "Interview Preparation" /\ in.job_analysis)
        gem == IF attempt
               THEN AppGeminiAttempt(in.video_type, in.import_ok, in.configured, in.gemini)
               ELSE "none"
        p == AppPlainPath(in.plain)
    IN  IF attempt /\ gem = "usable"
        THEN [phase |-> "done", tried |-> <<"gemini">>, ret |-> "returned", video |-> TRUE,
              method |-> "gemini", keys |-> {}, message |-> "generated successfully with Gemini"]
        ELSE [phase |-> "done",
              tried |-> IF attempt THEN <<"gemini", "moviepy">> ELSE <<"moviepy">>,
              ret |-> "returned", video |-> p.video, method |-> "moviepy", keys |-> {},
              message |-> p.message]

\* The keys of the result built on the moviepy path.
MoviepyResultKeys == {"job_id", "status", "generation_method", "output_path", "video_url"}

\* The branch of generate_video_with_fallback: the Gemini path exactly when
\* is_gemini_available() holds.
GeminiBranchTaken(configured, gemini) == is_gemini_available(configured)

\* gemini_video.generate_video_with_fallback: any exception of the branch
\* taken is re-raised as "All video generation methods failed".
generate_video_with_fallback_result(in) ==
    IF GeminiBranchTaken(in.configured, in.gemini)
    THEN LET result == generate_video_with_gemini(in.configured, in.gemini)
         IN  IF result.ret = "raised"
             THEN [phase |-> "done", tried |-> <<"gemini">>, ret |-> "raised",
                   video |-> FALSE, method |-> "none", keys |-> {},
                   message |-> "All video generation methods failed"]
             ELSE [phase |-> "done", tried |-> <<"gemini">>, ret |-> "returned",
                   video |-> FALSE, method |-> "gemini",
                   keys |-> result.keys \cup {"generation_method"},
                   message |-> result.status]
    ELSE IF in.plain = "raises"
    THEN [phase |-> "done", tried |-> <<"moviepy">>, ret |-> "raised", video |-> FALSE,
          method |-> "none", keys |-> {},
          message |-> "All video generation methods failed"]
    ELSE [phase |-> "done", tried |-> <<"moviepy">>, ret |-> "returned", video |-> TRUE,
          method |-> "moviepy", keys |-> MoviepyResultKeys, message |-> "completed"]

VgIdleOut ==
    [phase |-> "idle", tried |-> <<>>, ret |-> "none", video |-> FALSE, method |-> "none",
     keys |-> {}, message |-> "none"]

generate_pitch_video ==
    /\ vg_in.phase = "idle"
    /\ vg_out.phase = "idle"
    /\ vg_in.entry = "generate_pitch_video"
    /\ vg_out' = generate_pitch_video_result(vg_in)
    /\ UNCHANGED <<baseVars, calcVars, fts, fts_last, vg_in, sess, sess_last, tts_in,
                   tts_out, gs_in, gs_out, conn, conn_last>>

generate_video_with_fallback ==
    /\ vg_in.phase = "idle"
    /\ vg_out.phase = "idle"
    /\ vg_in.entry = "generate_video_with_fallback"
    /\ vg_out' = generate_video_with_fallback_result(vg_in)
    /\ UNCHANGED <<baseVars, calcVars, fts, fts_last, vg_in, sess, sess_last, tts_in,
                   tts_out, gs_in, gs_out, conn, conn_last>>

InitVideo ==
    /\ vg_in \in [phase : {"idle"}, entry : VideoEntries, video_type : VideoTypes,
                  job_analysis : BOOLEAN, import_ok : BOOLEAN, configured : BOOLEAN,
                  gemini : {"returns", "raises"}, plain : PlainOutcomes]
    /\ vg_in.entry = "generate_video_with_fallback" =>
          /\ vg_in.video_type = "General Pitch"
          /\ ~vg_in.job_analysis
          /\ vg_in.import_ok
          /\ vg_in.plain \in {"file", "raises"}
    /\ vg_out = VgIdleOut


(***************************************************************************)
(* The application session (src/app.py): one script run per widget event,  *)
(* the tabs rendered in order.  A resume is a number 1..MaxResumes; the     *)
(* text extracted from resume r is written r and the analysis computed     *)
(* from text r is written r; 0 stands for "" / None.                       *)
(***************************************************************************)
MaxResumes == 2     \* different resume files the user uploads in one session

Resumes == 1..MaxResumes

\* One step a script run performed: the text and the analysis it worked on.
SessEvent(step, text, analysis, ok) ==
    [step |-> step, text |-> text, analysis |-> analysis, ok |-> ok]

\* Session state as initialised at the top of the script.
SessInit ==
    [phase |-> "on", pc |-> "idle", button |-> "none", record |-> 0, uploaded |-> 0,
     extracted_text |-> 0, analysis_results |-> 0, video_path |-> 0, history |-> {}]

SessNoRun == [phase |-> "on", trace |-> <<>>, status |-> "none", displayed |-> 0]

\* The file uploader: the user chooses a valid resume file or removes it.
\* The script reruns with no button pressed and changes nothing else.
upload_file ==
    /\ sess.phase = "on"
    /\ sess.pc = "idle"
    /\ \E f \in 0..MaxResumes :
        /\ f # sess.uploaded
        /\ sess' = [sess EXCEPT !.uploaded = f]
    /\ sess_last' = SessNoRun
    /\ UNCHANGED <<baseVars, calcVars, fts, fts_last, vg_in, vg_out, tts_in, tts_out,
                   gs_in, gs_out, conn, conn_last>>

\* The "disabled" conditions of the buttons in main; every record listed in
\* the history tab has its own load button.
ButtonEnabled(s, button) ==
    IF button = "extract" THEN s.uploaded # 0
    ELSE IF button = "analyze" THEN s.uploaded # 0 /\ s.extracted_text # 0
    ELSE s.analysis_results # 0

\* A button press starts a script run; with a valid uploaded file the four
\* tabs are rendered, otherwise the welcome screen and the history tab.
click_button ==
    /\ sess.phase = "on"
    /\ sess.pc = "idle"
    /\ \/ \E button \in {"extract", "analyze", "video"} :
             /\ ButtonEnabled(sess, button)
             /\ sess' = [sess EXCEPT !.pc = IF sess.uploaded # 0 THEN "tab1" ELSE "tab4",
                                     !.button = button, !.record = 0]
       \/ \E record \in sess.history :
             sess' = [sess EXCEPT !.pc = IF sess.uploaded # 0 THEN "tab1" ELSE "tab4",
                                  !.button = "load", !.record = record.text]
    /\ sess_last' = SessNoRun
    /\ UNCHANGED <<baseVars, calcVars, fts, fts_last, vg_in, vg_out, tts_in, tts_out,
                   gs_in, gs_out, conn, conn_last>>

\* display_text_extraction_tab: on the extract button the file is saved and
\* extracted; only a non-empty text is put into the session.
display_text_extraction_tab ==
    /\ sess.phase = "on"
    /\ sess.pc = "tab1"
    /\ IF sess.button = "extract"
       THEN \E outcome \in {"text", "empty", "raises"} :
              /\ sess' = [sess EXCEPT !.pc = "tab2",
                                      !.extracted_text =
                                          IF outcome = "text" THEN sess.uploaded ELSE @]
              /\ sess_last' = [sess_last EXCEPT
                                  !.trace = Append(@, SessEvent("extract", sess.uploaded, 0,
                                                                outcome = "text")),
                                  !.status = IF outcome = "text" THEN "success" ELSE "failed"]
       ELSE /\ sess' = [sess EXCEPT !.pc = "tab2"]
            /\ sess_last' = sess_last
    /\ UNCHANGED <<baseVars, calcVars, fts, fts_last, vg_in, vg_out, tts_in, tts_out,
                   gs_in, gs_out, conn, conn_last>>

\* Variant: the result is saved whatever the analysis returned.
PersistAttempted_Always(analysis_results) == TRUE

\* "if analysis_results:" the session assignment and the save to the
\* database sit in this branch only.
PersistAttempted(analysis_results) == analysis_results # 0

\* Variant: an exception of the save leaves the step through its outer handler.
SaveGuarded_Propagates(db_error) == ~db_error

\* The save to the database is wrapped in its own try/except, which logs
\* the exception and lets the step go on.
SaveGuarded(db_error) == TRUE

\* display_analysis_results_tab: on the analyze button with a text in the
\* session, perform_resume_analysis ({} on any failure), the session
\* assignment, the guarded save, the status message, and at the end the
\* display of whatever analysis the session holds.
display_analysis_results_tab ==
    /\ sess.phase = "on"
    /\ sess.pc = "tab2"
    /\ IF sess.button = "analyze" /\ sess.extracted_text # 0
       THEN \E analysis_ok \in BOOLEAN, db_error \in BOOLEAN :
              LET analysis_results == IF analysis_ok THEN sess.extracted_text ELSE 0
                  saves == PersistAttempted(analysis_results)
                  stored == saves /\ ~db_error
                  continues == ~saves \/ ~db_error \/ SaveGuarded(db_error)
                  assigned == IF analysis_results # 0 THEN analysis_results
                              ELSE sess.analysis_results
                  ev1 == SessEvent("analyze", sess.extracted_text, analysis_results,
                                   analysis_ok)
                  ev2 == SessEvent("persist", sess.extracted_text, analysis_results, stored)
              IN  /\ sess' = [sess EXCEPT
                                !.pc = "tab3",
                                !.analysis_results = assigned,
                                !.history = IF stored
                                            THEN @ \cup {[text |-> sess.extracted_text,
                                                          analysis |-> analysis_results]}
                                            ELSE @]
                  /\ sess_last' = [sess_last EXCEPT
                                      !.trace = IF saves THEN @ \o <<ev1, ev2>>
                                                ELSE Append(@, ev1),
                                      !.status = IF analysis_ok /\ continues THEN "success"
                                                 ELSE "failed",
                                      !.displayed = assigned]
       ELSE /\ sess' = [sess EXCEPT !.pc = "tab3"]
            /\ sess_last' = [sess_last EXCEPT !.displayed = sess.analysis_results]
    /\ UNCHANGED <<baseVars, calcVars, fts, fts_last, vg_in, vg_out, tts_in, tts_out,
                   gs_in, gs_out, conn, conn_last>>

\* display_video_generation_tab: on the video button with an analysis in the
\* session, generate_pitch_video on that analysis; the path is kept when a
\* file was produced.
display_video_generation_tab ==
    /\ sess.phase = "on"
    /\ sess.pc = "tab3"
    /\ IF sess.button = "video" /\ sess.analysis_results # 0
       THEN \E produced \in BOOLEAN :
              /\ sess' = [sess EXCEPT !.pc = "tab4",
                                      !.video_path = IF produced THEN sess.analysis_results
                                                     ELSE @]
              /\ sess_last' = [sess_last EXCEPT
                                  !.trace = Append(@, SessEvent("video", sess.extracted_text,
                                                                sess.analysis_results,
                                                                produced)),
                                  !.status = IF produced THEN "success" ELSE "failed"]
       ELSE /\ sess' = [sess EXCEPT !.pc = "tab4"]
            /\ sess_last' = sess_last
    /\ UNCHANGED <<baseVars, calcVars, fts, fts_last, vg_in, vg_out, tts_in, tts_out,
                   gs_in, gs_out, conn, conn_last>>

\* load_historical_analysis: the text of the record, and its analysis when
\* the record has one (every record the Analyze step stored has one).
load_historical_analysis(s, record) ==
    [s EXCEPT !.extracted_text = record.text,
              !.analysis_results = IF record.analysis # 0 THEN record.analysis ELSE @]

\* display_history_tab: lists the stored records; the load button of a
\* record loads it into the session.  The script run ends after this tab.
display_history_tab ==
    /\ sess.phase = "on"
    /\ sess.pc = "tab4"
    /\ IF sess.button = "load"
       THEN LET records == {r \in sess.history : r.text = sess.record}
            IN  /\ sess' = [IF records = {} THEN sess
                            ELSE load_historical_analysis(sess, CHOOSE r \in records : TRUE)
                               EXCEPT !.pc = "idle", !.button = "none", !.record = 0]
                /\ sess_last' = [sess_last EXCEPT
                                    !.trace = Append(@, SessEvent("load", sess.record,
                                                                  sess.record, records # {})),
                                    !.status = "success"]
       ELSE /\ sess' = [sess EXCEPT !.pc = "idle", !.button = "none", !.record = 0]
            /\ sess_last' = sess_last
    /\ UNCHANGED <<baseVars, calcVars, fts, fts_last, vg_in, vg_out, tts_in, tts_out,
                   gs_in, gs_out, conn, conn_last>>

InitSession == sess = SessInit /\ sess_last = SessNoRun


(***************************************************************************)
(* Narration joiners (src/tts_video.py): _combine_script_parts,            *)
(* _combine_script_parts_with_pacing and _clean_text_for_tts.  A text is   *)
(* the sequence of its characters; "e-acute" stands for one non-ASCII      *)
(* letter and "tab" for the tab character.                                 *)
(***************************************************************************)
segment_order == <<"intro", "skills", "achievement", "closing">>

\* The segment texts of a script; NoSegment marks a segment that is absent.
NoSegment == <<"absent">>

SegmentTexts ==
    { <<"H", "i">>,
      <<"#">>,
      <<" ">>,
      <<"a", "#", " ", " ", "b", ".">>,
      <<"e-acute", "!">>,
      <<"tab", "a", "tab", "1">> }

\* string.ascii_letters + string.digits + ' .,!?-\'' on the characters used.
allowed_chars == {"H", "i", "a", "b", "p", "r", "o", "f", "e", "s", "n", "l", "c", "t",
                  "1", " ", ".", ",", "!", "?", "-", "'"}

Whitespace == {" ", "tab"}

\* str.strip()
RECURSIVE StripLeft(_)
StripLeft(t) == IF t # <<>> /\ Head(t) \in Whitespace THEN StripLeft(Tail(t)) ELSE t

RECURSIVE StripRight(_)
StripRight(t) ==
    IF t # <<>> /\ t[Len(t)] \in Whitespace
    THEN StripRight(SubSeq(t, 1, Len(t) - 1)) ELSE t

Strip(t) == StripRight(StripLeft(t))

\* ' '.join(cleaned.split()): runs of whitespace become one space, none is
\* left at either end.
RECURSIVE CollapseSpaces(_)
CollapseSpaces(t) ==
    IF t = <<>> THEN <<>>
    ELSE IF Head(t) \in Whitespace
    THEN LET rest == StripLeft(t)
         IN  IF rest = <<>> THEN <<>> ELSE <<" ">> \o CollapseSpaces(rest)
    ELSE <<Head(t)>> \o CollapseSpaces(Tail(t))

ProfessionalContent ==
    <<"p", "r", "o", "f", "e", "s", "s", "i", "o", "n", "a", "l", " ",
      "c", "o", "n", "t", "e", "n", "t">>

\* Variant: the text is returned as it came.
clean_text_for_tts_Unfiltered(text) == text

\* _clean_text_for_tts
clean_text_for_tts(text) ==
    IF text = <<>> THEN <<>>
    ELSE LET cleaned == CollapseSpaces(StripLeft(
                            SelectSeq(text, LAMBDA char : char \in allowed_chars)))
         IN  IF Strip(cleaned) = <<>> THEN ProfessionalContent ELSE Strip(cleaned)

\* str.join
RECURSIVE JoinParts(_, _)
JoinParts(parts, sep) ==
    IF parts = <<>> THEN <<>>
    ELSE IF Len(parts) = 1 THEN parts[1]
    ELSE parts[1] \o sep \o JoinParts(Tail(parts), sep)

\* The segments of segment_order present in the script, in that order.
available_segments(script_data) ==
    SelectSeq(segment_order, LAMBDA s : script_data[s] # NoSegment)

\* _combine_script_parts: the stripped non-empty texts joined by ". ".
combine_script_parts(script_data) ==
    LET avail == available_segments(script_data)
        kept == SelectSeq(avail, LAMBDA s : Strip(script_data[s]) # <<>>)
        parts == [i \in 1..Len(kept) |-> [segment |-> kept[i],
                                          text |-> Strip(script_data[kept[i]])]]
    IN  [parts |-> parts,
         text |-> JoinParts([i \in 1..Len(parts) |-> parts[i].text], <<".", " ">>) \o <<".">>]

\* The closing punctuation _combine_script_parts_with_pacing adds to a part.
Paced(segment, text) ==
    LET last == text[Len(text)]
    IN  IF segment = "closing"
        THEN IF last \in {"!", "."} THEN text ELSE text \o <<"!">>
        ELSE IF last = "." THEN text ELSE text \o <<".">>

\* _combine_script_parts_with_pacing: the stripped non-empty texts, cleaned,
\* punctuated and joined by two spaces.
combine_script_parts_with_pacing(script_data) ==
    LET avail == available_segments(script_data)
        kept == SelectSeq(avail, LAMBDA s : Strip(script_data[s]) # <<>>)
        parts == [i \in 1..Len(kept) |->
                     [segment |-> kept[i],
                      text |-> Paced(kept[i],
                                     clean_text_for_tts(Strip(script_data[kept[i]])))]]
    IN  [parts |-> parts,
         text |-> JoinParts([i \in 1..Len(parts) |-> parts[i].text], <<" ", " ">>)]

combine_script ==
    /\ tts_in.phase = "idle"
    /\ tts_out.phase = "idle"
    /\ LET r == IF tts_in.strategy = "plain" THEN combine_script_parts(tts_in.script_data)
                ELSE combine_script_parts_with_pacing(tts_in.script_data)
       IN  tts_out' = [phase |-> "done", parts |-> r.parts, text |-> r.text]
    /\ UNCHANGED <<baseVars, calcVars, fts, fts_last, vg_in, vg_out, sess, sess_last,
                   tts_in, gs_in, gs_out, conn, conn_last>>

InitNarration ==
    /\ tts_in \in [phase : {"idle"}, strategy : {"plain", "paced"},
                   script_data : [{"intro", "skills", "achievement", "closing"} ->
                                     SegmentTexts \cup {NoSegment}]]
    /\ tts_out = [phase |-> "idle", parts |-> <<>>, text |-> <<>>]


(***************************************************************************)
(* Generation status (src/gemini_video.py, check_generation_status).       *)
(* Time is counted in whole seconds since the timestamp in the job id.     *)
(***************************************************************************)
MaxElapsed == 65    \* seconds the clock runs on after the job was started

\* Variant: the job is completed from 30 seconds on.
JobStatus_Completes30(elapsed_time) ==
    IF elapsed_time < 30 THEN "processing" ELSE "completed"

\* The status by the age of the job.
JobStatus(elapsed_time) ==
    IF elapsed_time < 30 THEN "processing"
    ELSE IF elapsed_time < 60 THEN "processing"
    ELSE "completed"

\* The progress by the age of the job; int() truncates.
JobProgress(elapsed_time) ==
    IF elapsed_time < 30 THEN Min((elapsed_time * 100) \div 60, 90)
    ELSE IF elapsed_time < 60 THEN 95
    ELSE 100

\* check_generation_status: the response for a job of the given age.
check_generation_status_result(elapsed_time) ==
    [at |-> elapsed_time,
     status |-> JobStatus(elapsed_time),
     progress_percentage |-> JobProgress(elapsed_time),
     video_url |-> IF JobStatus(elapsed_time) = "completed" THEN "url" ELSE "None"]

NoReport == [at |-> 0, status |-> "none", progress_percentage |-> 0, video_url |-> "None"]

\* Time passes.
clock_advances ==
    /\ gs_in.phase = "on"
    /\ \E d \in {1, 10} :
        /\ gs_in.elapsed + d <= MaxElapsed
        /\ gs_in' = [gs_in EXCEPT !.elapsed = @ + d]
    /\ UNCHANGED <<baseVars, calcVars, fts, fts_last, vg_in, vg_out, sess, sess_last,
                   tts_in, tts_out, gs_out, conn, conn_last>>

\* check_generation_status(job_id); the previous report is kept for comparison.
check_generation_status ==
    /\ gs_in.phase = "on"
    /\ gs_out' = [phase |-> "on", prev |-> gs_out.cur,
                  cur |-> check_generation_status_result(gs_in.elapsed)]
    /\ UNCHANGED <<baseVars, calcVars, fts, fts_last, vg_in, vg_out, sess, sess_last,
                   tts_in, tts_out, gs_in, conn, conn_last>>

InitStatus ==
    /\ gs_in = [phase |-> "on", elapsed |-> 0]
    /\ gs_out = [phase |-> "on", prev |-> NoReport, cur |-> NoReport]


(***************************************************************************)
(* Hosted store connections (src/database.py): the module-level cached     *)
(* connection of get_database_connection and the client wrapper of         *)
(* init_supabase_client.  A connection is a number; 0 stands for None.     *)
(***************************************************************************)
MaxConnections == 3     \* connections psycopg2.connect ever opens

ConnInit ==
    [phase |-> "on", opened |-> 0, live |-> {}, db_connection |-> 0, supabase_client |-> 0]

NoConnCall ==
    [phase |-> "on", op |-> "none", on |-> 0, on_closed |-> FALSE, live_cached |-> FALSE,
     ret |-> "none"]

\* connection.closed
Closed(c, k) == k \notin c.live

\* get_database_connection: the cached connection unless there is none or it
\* reports itself closed; then psycopg2.connect, which returns a new
\* connection or raises.  Returns the module state and the connection (0
\* when it raised).
get_database_connection(c, connect_ok) ==
    IF c.db_connection = 0 \/ Closed(c, c.db_connection)
    THEN IF connect_ok /\ c.opened < MaxConnections
         THEN [c |-> [c EXCEPT !.opened = @ + 1, !.live = @ \cup {c.opened + 1},
                               !.db_connection = c.opened + 1],
               connection |-> c.opened + 1]
         ELSE [c |-> c, connection |-> 0]
    ELSE [c |-> c, connection |-> c.db_connection]

\* init_supabase_client: the cached wrapper; the first call builds it, and
\* the wrapper keeps the connection get_database_connection gave it then.
\* Returns the module state and the wrapper's connection (0 when it raised).
init_supabase_client(c, connect_ok) ==
    IF c.supabase_client = 0
    THEN LET g == get_database_connection(c, connect_ok)
         IN  IF g.connection = 0 THEN g
             ELSE [c |-> [g.c EXCEPT !.supabase_client = g.connection],
                   connection |-> g.connection]
    ELSE [c |-> c, connection |-> c.supabase_client]

\* What an operation did: the connection it ran on, whether that one was
\* closed, and whether the cached connection was a live one at that moment.
ConnCall(op, c, connection) ==
    [phase |-> "on", op |-> op, on |-> connection,
     on_closed |-> connection # 0 /\ Closed(c, connection),
     live_cached |-> c.db_connection # 0 /\ ~Closed(c, c.db_connection),
     ret |-> IF connection = 0 \/ Closed(c, connection) THEN "raised" ELSE "returned"]

\* The functions that take their connection from get_database_connection.
RawSqlFunctions == {"store_cv_analysis", "get_cv_history", "test_database_connection"}

\* The functions that go through the client of init_supabase_client.
FluentFunctions ==
    {"update_cv_record", "store_video_record", "update_video_status", "get_cv_by_id",
     "store_cv_analysis_with_job", "delete_cv_record"}

\* A raw-SQL function: conn = get_database_connection(), then its cursor.
raw_sql_operation ==
    /\ conn.phase = "on"
    /\ \E op \in RawSqlFunctions, connect_ok \in BOOLEAN :
        LET g == get_database_connection(conn, connect_ok)
        IN  /\ conn' = g.c
            /\ conn_last' = ConnCall(op, g.c, g.connection)
    /\ UNCHANGED <<baseVars, calcVars, fts, fts_last, vg_in, vg_out, sess, sess_last,
                   tts_in, tts_out, gs_in, gs_out>>

\* A query-builder function: client = init_supabase_client(), then
\* execute() on the wrapper's connection.
fluent_operation ==
    /\ conn.phase = "on"
    /\ \E op \in FluentFunctions, connect_ok \in BOOLEAN :
        LET g == init_supabase_client(conn, connect_ok)
        IN  /\ conn' = g.c
            /\ conn_last' = ConnCall(op, g.c, g.connection)
    /\ UNCHANGED <<baseVars, calcVars, fts, fts_last, vg_in, vg_out, sess, sess_last,
                   tts_in, tts_out, gs_in, gs_out>>

\* The server or the network ends a connection; it then reports itself closed.
connection_closes ==
    /\ conn.phase = "on"
    /\ \E k \in conn.live : conn' = [conn EXCEPT !.live = @ \ {k}]
    /\ conn_last' = NoConnCall
    /\ UNCHANGED <<baseVars, calcVars, fts, fts_last, vg_in, vg_out, sess, sess_last,
                   tts_in, tts_out, gs_in, gs_out>>

InitConn == conn = ConnInit /\ conn_last = NoConnCall


(***************************************************************************)
(* Idle values of the subsystems a specification does not run.             *)
(***************************************************************************)
IdleGpt == gpt_in = [phase |-> "off"] /\ gpt_out = [phase |-> "off"]

IdleOcr == ocr_in = [phase |-> "off"] /\ ocr_out = [phase |-> "off"]

IdleInterview == iv_in = [phase |-> "off"] /\ iv_out = [phase |-> "off"]

IdleSkills == sk_in = [phase |-> "off"] /\ sk_out = [phase |-> "off"]

IdlePitch == ps_in = [phase |-> "off"] /\ ps_out = [phase |-> "off"]

IdleTiming == td_in = [phase |-> "off"] /\ td_out = [phase |-> "off"]

IdleHistory == hist = [phase |-> "off"] /\ hist_last = [phase |-> "off"]

IdleCalc == IdleSkills /\ IdlePitch /\ IdleTiming /\ IdleHistory

IdleBase == InitLite /\ InitPg /\ IdleGpt /\ IdleOcr /\ IdleInterview

IdleSearch == fts = [phase |-> "off"] /\ fts_last = [phase |-> "off"]

IdleVideo == vg_in = [phase |-> "off"] /\ vg_out = [phase |-> "off"]

IdleSession == sess = [phase |-> "off"] /\ sess_last = [phase |-> "off"]

IdleNarration == tts_in = [phase |-> "off"] /\ tts_out = [phase |-> "off"]

IdleStatus == gs_in = [phase |-> "off"] /\ gs_out = [phase |-> "off"]

IdleConn == conn = [phase |-> "off"] /\ conn_last = [phase |-> "off"]

IdleApp ==
    IdleSearch /\ IdleVideo /\ IdleSession /\ IdleNarration /\ IdleStatus /\ IdleConn

(***************************************************************************)
(* Specifications of the two stores.                                       *)
(***************************************************************************)
InitEmbedded == InitLite /\ InitPg /\ IdleGpt /\ IdleOcr /\ IdleInterview /\ IdleCalc /\ IdleApp

NextEmbedded ==
    \/ db_store_cv_analysis
    \/ db_store_video_record
    \/ db_delete_cv_record
    \/ db_cleanup_old_records

SpecEmbedded == InitEmbedded /\ [][NextEmbedded]_vars

InitHosted == InitLite /\ InitPg /\ IdleGpt /\ IdleOcr /\ IdleInterview /\ IdleCalc /\ IdleApp

NextHosted ==
    \/ database_store_cv_analysis
    \/ database_store_cv_analysis_with_job
    \/ database_store_video_record
    \/ database_update_video_status
    \/ database_delete_cv_record

SpecHosted == InitHosted /\ [][NextHosted]_vars



(***************************************************************************)
(* Specification of the LLM calls.                                         *)
(***************************************************************************)
InitGptSpec == InitLite /\ InitPg /\ InitGpt /\ IdleOcr /\ IdleInterview /\ IdleCalc /\ IdleApp

NextGpt ==
    \/ call_gpt_analysis
    \/ call_gpt_with_retry

SpecGpt == InitGptSpec /\ [][NextGpt]_vars


(***************************************************************************)
(* Specifications of the OCR call and of the interview helpers.            *)
(***************************************************************************)
InitOcrSpec == InitLite /\ InitPg /\ IdleGpt /\ InitOcr /\ IdleInterview /\ IdleCalc /\ IdleApp

NextOcr == call_nutrient_ocr

SpecOcr == InitOcrSpec /\ [][NextOcr]_vars

InitInterviewSpec == InitLite /\ InitPg /\ IdleGpt /\ IdleOcr /\ InitInterview /\ IdleCalc /\ IdleApp

NextInterview ==
    \/ generate_interview_questions
    \/ conduct_mock_interview
    \/ evaluate_interview_responses

SpecInterview == InitInterviewSpec /\ [][NextInterview]_vars


(***************************************************************************)
(* Specification of the skill gap scoring.                                 *)
(***************************************************************************)
InitSkillsSpec == IdleBase /\ InitSkills /\ IdlePitch /\ IdleTiming /\ IdleHistory /\ IdleApp

NextSkills == score_resume_vs_job

SpecSkills == InitSkillsSpec /\ [][NextSkills]_vars


(***************************************************************************)
(* Specification of the pitch script.                                      *)
(***************************************************************************)
InitPitchSpec == IdleBase /\ IdleSkills /\ InitPitch /\ IdleTiming /\ IdleHistory /\ IdleApp

NextPitch == generate_pitch_script

SpecPitch == InitPitchSpec /\ [][NextPitch]_vars


(***************************************************************************)
(* Specification of the timing distribution.                               *)
(***************************************************************************)
InitTimingSpec == IdleBase /\ IdleSkills /\ IdlePitch /\ InitTiming /\ IdleHistory /\ IdleApp

NextTiming == calculate_timing_distribution

SpecTiming == InitTimingSpec /\ [][NextTiming]_vars


(***************************************************************************)
(* Specification of storing analyses and reading the history back.         *)
(***************************************************************************)
InitHistorySpec == IdleBase /\ IdleSkills /\ IdlePitch /\ IdleTiming /\ InitHistory /\ IdleApp

NextHistory ==
    \/ history_store_cv_analysis
    \/ history_delete_cv_record
    \/ db_get_analysis_history

SpecHistory == InitHistorySpec /\ [][NextHistory]_vars


(***************************************************************************)
(* Specification of the full-text search index.                            *)
(***************************************************************************)
InitSearchSpec ==
    IdleBase /\ IdleCalc /\ InitSearch /\ IdleVideo /\ IdleSession /\ IdleNarration
    /\ IdleStatus /\ IdleConn

NextSearch ==
    \/ fts_store_cv_analysis
    \/ fts_update_cv_record
    \/ fts_delete_cv_record
    \/ fts_cleanup_old_records
    \/ search_analysis_history

SpecSearch == InitSearchSpec /\ [][NextSearch]_vars


(***************************************************************************)
(* Specification of the video entry points.                                *)
(***************************************************************************)
InitVideoSpec ==
    IdleBase /\ IdleCalc /\ IdleSearch /\ InitVideo /\ IdleSession /\ IdleNarration
    /\ IdleStatus /\ IdleConn

NextVideo ==
    \/ generate_pitch_video
    \/ generate_video_with_fallback

SpecVideo == InitVideoSpec /\ [][NextVideo]_vars


(***************************************************************************)
(* Specification of the application session.                               *)
(***************************************************************************)
InitSessionSpec ==
    IdleBase /\ IdleCalc /\ IdleSearch /\ IdleVideo /\ InitSession /\ IdleNarration
    /\ IdleStatus /\ IdleConn

NextSession ==
    \/ upload_file
    \/ click_button
    \/ display_text_extraction_tab
    \/ display_analysis_results_tab
    \/ display_video_generation_tab
    \/ display_history_tab

SpecSession == InitSessionSpec /\ [][NextSession]_vars


(***************************************************************************)
(* Specification of the narration joiners.                                 *)
(***************************************************************************)
InitNarrationSpec ==
    IdleBase /\ IdleCalc /\ IdleSearch /\ IdleVideo /\ IdleSession /\ InitNarration
    /\ IdleStatus /\ IdleConn

NextNarration == combine_script

SpecNarration == InitNarrationSpec /\ [][NextNarration]_vars


(***************************************************************************)
(* Specification of the generation status.                                 *)
(***************************************************************************)
InitStatusSpec ==
    IdleBase /\ IdleCalc /\ IdleSearch /\ IdleVideo /\ IdleSession /\ IdleNarration
    /\ InitStatus /\ IdleConn

NextStatus ==
    \/ clock_advances
    \/ check_generation_status

SpecStatus == InitStatusSpec /\ [][NextStatus]_vars


(***************************************************************************)
(* Specification of the hosted store connections.                          *)
(***************************************************************************)
InitConnSpec ==
    IdleBase /\ IdleCalc /\ IdleSearch /\ IdleVideo /\ IdleSession /\ IdleNarration
    /\ IdleStatus /\ InitConn

NextConn ==
    \/ raw_sql_operation
    \/ fluent_operation
    \/ connection_closes

SpecConn == InitConnSpec /\ [][NextConn]_vars


(***************************************************************************)
(* Properties.                                                             *)
(***************************************************************************)

\* The child rows of CV Record c still found in a store.
ChildrenOf(db, c) == {r \in db.ar : r.cv_id = c} \cup {r \in db.vr : r.cv_id = c}

\* C1: after delete_cv_record on an existing CV Record (the driver raising
\* nothing), no Analysis Result and no Video Record of that CV Record can be
\* looked up any more, in the embedded store and in the hosted store.
C1_CascadeDelete ==
    /\ (lite_last.op = "delete_cv_record" /\ lite_last.existed /\ ~lite_last.drv)
          => ChildrenOf(lite, lite_last.id) = {}
    /\ (pg_last.op = "delete_cv_record" /\ pg_last.existed /\ ~pg_last.drv)
          => ChildrenOf(pg, pg_last.id) = {}

StoreOps == {"store_cv_analysis", "store_cv_analysis_with_job"}

\* After a store call: the CV Record it made and the Analysis Result of that
\* CV Record are stored together or not at all, and a call that returned
\* stored both.
AllOrNothing(db, last) ==
    last.op \in StoreOps =>
        /\ (last.id \in db.cv) <=> (\E a \in db.ar : a.cv_id = last.id)
        /\ last.ret = "returned" => last.id \in db.cv

\* C2: storing a CV analysis is all-or-nothing in the embedded
\* store_cv_analysis, the hosted store_cv_analysis and the hosted
\* store_cv_analysis_with_job, whether the call returns or raises part-way.
C2_StoreAllOrNothing == AllOrNothing(lite, lite_last) /\ AllOrNothing(pg, pg_last)

\* A response whose text is, or encloses, a JSON object with the five required
\* keys, the four lists being lists and the pitch a string.
GoodContent(c) ==
    /\ c.wrap \in {"json", "embedded"}
    /\ c.top = "object"
    /\ \A f \in FieldSet : c.obj[f] = (IF f = "one_sentence_pitch" THEN "str" ELSE "list")

GptDone(fn) == gpt_out.phase = "done" /\ gpt_out.fn = fn

\* C3: when the LLM client raises on its first call and answers with a
\* well-formed analysis on its second, call_gpt_analysis returns that parsed
\* analysis and the client was called exactly twice.
C3_RetryThenSucceed ==
    (/\ GptDone("call_gpt_analysis")
     /\ gpt_in.script[1].kind = "raise"
     /\ gpt_in.script[2].kind = "ok"
     /\ GoodContent(gpt_in.script[2].content))
    => /\ gpt_out.kind = "returned"
       /\ gpt_out.data = gpt_in.script[2].content.obj
       /\ gpt_out.calls = 2

C3_Witness ==
    /\ GptDone("call_gpt_analysis")
    /\ gpt_in.script[1].kind = "raise"
    /\ gpt_in.script[2].kind = "ok"
    /\ GoodContent(gpt_in.script[2].content)
    /\ gpt_in.script[2].content.wrap = "embedded"
    /\ gpt_out.calls = 2

\* C4: when every LLM call raises, the retry wrapper with its default
\* max_attempts makes exactly 2 calls, sleeps 2^0 = 1 second once (after the
\* first failure, not after the last) and re-raises the exception of the last
\* attempt; with the default it never makes a third call and never ends
\* without a response or an exception.
C4_RetryExhausted ==
    (gpt_out.phase = "done" /\ gpt_out.max_attempts = DefaultMaxAttempts)
    => /\ gpt_out.calls <= 2
       /\ gpt_out.kind \in {"returned", "raised"}
       /\ (gpt_in.script[1].kind = "raise" /\ gpt_in.script[2].kind = "raise")
            => /\ gpt_out.calls = 2
               /\ gpt_out.sleeps = <<1>>
               /\ gpt_out.kind = "raised"
               /\ gpt_out.inner = <<gpt_in.script[2].err>>

C4_Witness ==
    /\ GptDone("_call_gpt_with_retry")
    /\ gpt_out.max_attempts = DefaultMaxAttempts
    /\ gpt_in.script[1].kind = "raise"
    /\ gpt_in.script[2].kind = "raise"
    /\ gpt_in.script[1].err # gpt_in.script[2].err
    /\ gpt_out.kind = "raised"

OcrDone == ocr_out.phase = "done"

\* sleeps[i] is the wait after the i-th request, i.e. after attempt i - 1.
\* C5 (as claimed): every wait of call_nutrient_ocr is 1s x 2^attempt, 1 second
\* before the first retry and 2 seconds before the second, whatever retryable
\* failure (HTTP 429, timeout, connection error) caused it.
C5_BackoffEveryKind ==
    OcrDone => \A i \in 1..Len(ocr_out.sleeps) : ocr_out.sleeps[i] = 1 * 2 ^ (i - 1)

\* C5 (amended): the wait is 1s x 2^attempt (1 second, then 2 seconds) after
\* HTTP 429 only; after a timeout or a connection error it is 1 second before
\* every retry; nothing else is followed by a wait.
C5_BackoffByKind ==
    OcrDone => \A i \in 1..Len(ocr_out.sleeps) :
        /\ ocr_in.script[i] \in {"429", "timeout", "connection_error"}
        /\ ocr_in.script[i] = "429" => ocr_out.sleeps[i] = 1 * 2 ^ (i - 1)
        /\ ocr_in.script[i] # "429" => ocr_out.sleeps[i] = 1

C5_Witness ==
    /\ OcrDone
    /\ ocr_in.script[1] = "timeout"
    /\ ocr_in.script[2] = "429"
    /\ ocr_out.sleeps = <<1, 2>>

\* C6: one call sends at most 3 requests and ends by returning non-empty text
\* or raising; a further request follows only HTTP 429, a timeout or a
\* connection error; HTTP 401, HTTP 400, another non-200 status and a 200
\* with an empty body raise right after that request: it is the last one and
\* no wait follows it.
C6_OcrRequestsBounded ==
    OcrDone =>
        /\ ocr_out.requests <= 3
        /\ \/ ocr_out.kind = "returned" /\ ocr_out.text # ""
           \/ ocr_out.kind = "raised" /\ ocr_out.msg # <<>>
        /\ \A i \in 1..ocr_out.requests :
            /\ i < ocr_out.requests
                 => ocr_in.script[i] \in {"429", "timeout", "connection_error"}
            /\ ocr_in.script[i] \in {"401", "400", "500", "200_empty"}
                 => /\ i = ocr_out.requests
                    /\ ocr_out.kind = "raised"
                    /\ Len(ocr_out.sleeps) = i - 1

C6_Witness ==
    /\ OcrDone
    /\ ocr_in.script[1] = "connection_error"
    /\ ocr_in.script[2] = "401"
    /\ ocr_out.requests = 2
    /\ ocr_out.kind = "raised"

\* The LLM call or the parsing of its response failed.
InterviewLlmFailed == iv_in.llm \in {"raise", "none_content", "embedded_bad", "nojson"}

\* C7: generate_interview_questions, conduct_mock_interview and
\* evaluate_interview_responses never let an exception reach the caller: for
\* any inputs, empty question or response lists included, a failed LLM call
\* or parse ends in the local fallback result being returned.
C7_InterviewNeverRaises ==
    iv_out.phase = "done" =>
        /\ iv_out.kind = "returned"
        /\ InterviewLlmFailed => iv_out.source = "fallback"

\* The attempts call_gpt_analysis makes all raise.
GptAllAttemptsRaise == \A i \in 1..2 : gpt_in.script[i].kind = "raise"

\* The response call_gpt_analysis gets to parse: that of the first attempt
\* that does not raise.
GptAnswer ==
    IF gpt_in.script[1].kind = "ok" THEN gpt_in.script[1].content
    ELSE gpt_in.script[2].content

\* m ends with the message orig.
Carries(m, orig) ==
    /\ orig # <<>>
    /\ Len(m) >= Len(orig)
    /\ SubSeq(m, Len(m) - Len(orig) + 1, Len(m)) = orig

\* C8: call_gpt_analysis returns only a fully validated analysis, never a
\* substitute: when every attempt fails, or the response holds no parseable
\* JSON object, or a required key is missing or of the wrong type, it raises
\* an exception whose message carries the message of the original error.
C8_AnalysisNeverSubstitutes ==
    GptDone("call_gpt_analysis") =>
        /\ (GptAllAttemptsRaise \/ ~GoodContent(GptAnswer))
             => /\ gpt_out.kind = "raised"
                /\ Carries(gpt_out.msg, gpt_out.inner)
                /\ GptAllAttemptsRaise => gpt_out.inner = <<gpt_in.script[2].err>>
        /\ gpt_out.kind = "returned"
             => /\ ~GptAllAttemptsRaise
                /\ GoodContent(GptAnswer)
                /\ gpt_out.data = GptAnswer.obj

C8_Witness ==
    /\ GptDone("call_gpt_analysis")
    /\ gpt_in.script[1].kind = "ok"
    /\ gpt_in.script[1].content.top = "object"
    /\ gpt_in.script[1].content.obj["top_skills"] = "absent"
    /\ gpt_out.kind = "raised"
    /\ gpt_out.msg = <<"Failed to analyze resume: ", "Missing required field: ", "top_skills">>

\* One step of a Video Record's status.
StatusStep(a, b) ==
    \/ a = b
    \/ a = "pending" /\ b = "processing"
    \/ a = "processing" /\ b \in {"completed", "failed"}

C10_UpdateVideoStatus ==
    (pg_last.op = "update_video_status" /\ pg_last.existed /\ ~pg_last.drv)
    => /\ pg_last.ret = "True"
       /\ \E v \in pg.vr :
            /\ v.id = pg_last.id
            /\ v.status = pg_last.status
            /\ pg_last.url # "" => v.video_url = pg_last.url

\* C11: the hosted delete_cv_record follows the embedded delete contract: a
\* delete of an existing CV Record (the driver raising nothing) removes the
\* record and returns true; false is returned only when no row was removed,
\* and true only when one was.
C11_HostedDeleteContract ==
    (pg_last.op = "delete_cv_record" /\ ~pg_last.drv) =>
        /\ pg_last.existed => (pg_last.ret = "True" /\ pg_last.id \notin pg.cv)
        /\ ~pg_last.existed => pg_last.ret = "False"

SkDone == sk_out.phase = "done"

SkJava == <<"j", "a", "v", "a">>

SkJavaScript == <<"j", "a", "v", "a", "s", "c", "r", "i", "p", "t">>

\* The normalized resume skills, and the normalized i-th job skill.
SkResumeNorm == {Normalize(sk_in.resume_skills[i]) : i \in 1..Len(sk_in.resume_skills)}

SkJobNorm(i) == Normalize(sk_in.job_skills[i])

\* The i-th job skill equals a resume skill.
SkIsExact(i) == SkJobNorm(i) \in SkResumeNorm

\* The i-th job skill is no exact match, is longer than 3 characters and
\* contains or is contained in a resume skill, "java" against a resume skill
\* that contains "javascript" not counting.
SkIsPartial(i) ==
    /\ ~SkIsExact(i)
    /\ Len(SkJobNorm(i)) > 3
    /\ \E r \in SkResumeNorm :
        /\ Contains(r, SkJobNorm(i)) \/ Contains(SkJobNorm(i), r)
        /\ ~(SkJobNorm(i) = SkJava /\ Contains(r, SkJavaScript))

SkExactCount == Cardinality({i \in 1..Len(sk_in.job_skills) : SkIsExact(i)})

SkPartialCount == Cardinality({i \in 1..Len(sk_in.job_skills) : SkIsPartial(i)})

\* C12 (as claimed): for any skill list S, score_resume_vs_job(S, S) yields
\* compatibility_score 100 and no missing skills.
C12_IdenticalListsAny ==
    (SkDone /\ sk_in.resume_skills = sk_in.job_skills)
    => /\ sk_out.compatibility_score = 100
       /\ sk_out.missing_skills = <<>>

\* C12 (amended): for any non-empty skill list S, score_resume_vs_job(S, S)
\* yields compatibility_score 100 and no missing skills; for the empty list
\* it yields compatibility_score 0 and no missing skills.
C12_IdenticalListsNonEmpty ==
    (SkDone /\ sk_in.resume_skills = sk_in.job_skills)
    => /\ sk_out.missing_skills = <<>>
       /\ sk_out.compatibility_score = (IF sk_in.job_skills = <<>> THEN 0 ELSE 100)

C12_Witness ==
    /\ SkDone
    /\ sk_in.resume_skills = sk_in.job_skills
    /\ Len(sk_in.job_skills) = 2
    /\ sk_in.job_skills[1] = sk_in.job_skills[2]
    /\ sk_out.compatibility_score = 100

\* n / d rounded to the nearest integer, halves to the even one (round()).
RoundHalfEven(n, d) ==
    LET q == n \div d
    IN  IF 2 * (n % d) > d \/ (2 * (n % d) = d /\ q % 2 = 1) THEN q + 1 ELSE q

SkPartialOnlyIf ==
    /\ \A n \in 1..Len(sk_out.partial_matches) :
        LET j == sk_out.partial_matches[n]
        IN  /\ ~InSeq(j, sk_out.exact_matches)
            /\ j \notin SkResumeNorm
            /\ Len(j) > 3
            /\ \E r \in SkResumeNorm : Contains(r, j) \/ Contains(j, r)
    /\ Len(sk_out.exact_matches) + Len(sk_out.partial_matches) <= Len(sk_in.job_skills)
    /\ Len(sk_out.exact_matches) = SkExactCount
    /\ Len(sk_out.partial_matches) = SkPartialCount

\* Every job skill that normalizes to "java" is listed as missing.
SkJavaMissing ==
    /\ ~InSeq(SkJava, sk_out.partial_matches)
    /\ \A i \in 1..Len(sk_in.job_skills) :
        SkJobNorm(i) = SkJava => InSeq(sk_in.job_skills[i], sk_out.missing_skills)

\* C14 (as claimed): a job skill is a partial match only if it is no exact
\* match, is longer than 3 characters and contains or is contained in some
\* resume skill, every job skill being counted at most once; and whenever
\* the resume lists "javascript" and the job lists "java", "java" is no
\* partial match and stays in missing_skills unless it is matched exactly.
C14_JavaNeverPartial ==
    SkDone =>
        /\ SkPartialOnlyIf
        /\ (/\ SkJavaScript \in SkResumeNorm
            /\ \E i \in 1..Len(sk_in.job_skills) : SkJobNorm(i) = SkJava
            /\ SkJava \notin SkResumeNorm)
           => SkJavaMissing

\* C14 (amended): as above, except that "java" is kept from being a partial
\* match only against resume skills that contain "javascript": it stays in
\* missing_skills unless it is matched exactly or it contains or is contained
\* in another resume skill without "javascript" in it (such as "java ee").
C14_JavaCarveOutPerPair ==
    SkDone =>
        /\ SkPartialOnlyIf
        /\ (/\ SkJavaScript \in SkResumeNorm
            /\ \E i \in 1..Len(sk_in.job_skills) : SkJobNorm(i) = SkJava
            /\ SkJava \notin SkResumeNorm
            /\ \A r \in SkResumeNorm :
                  (Contains(r, SkJava) \/ Contains(SkJava, r)) => Contains(r, SkJavaScript))
           => SkJavaMissing

C14_Witness ==
    /\ SkDone
    /\ sk_in.resume_skills = <<SkJavaScript>>
    /\ sk_in.job_skills = <<SkJavaScript, SkJava>>
    /\ sk_out.missing_skills = <<SkJava>>
    /\ sk_out.exact_matches = <<SkJavaScript>>

PsDone == ps_out.phase = "done"

\* C15: for any analysis payload, the empty one included,
\* generate_pitch_script returns exactly 4 segments (intro, skills,
\* achievement, closing) whose durations sum to exactly 10.0, whose start
\* times are contiguous from 0.0 (each start is the previous start plus the
\* previous duration), and whose closing text is "Let's connect!".
C15_PitchScriptTiming ==
    PsDone =>
        LET sc == ps_out.script
        IN  /\ Len(sc) = 4
            /\ [i \in 1..4 |-> sc[i].name] = <<"intro", "skills", "achievement", "closing">>
            /\ sc[1].duration + sc[2].duration + sc[3].duration + sc[4].duration = 10
            /\ sc[1].start_time = 0
            /\ \A i \in 2..4 : sc[i].start_time = sc[i - 1].start_time + sc[i - 1].duration
            /\ sc[4].text = <<"Let's connect!">>

C15_Witness ==
    /\ PsDone
    /\ ps_in.pitch = "absent"
    /\ ps_in.top_skills = 0
    /\ ps_in.strengths = <<>>
    /\ Len(ps_out.script) = 4
    /\ ps_out.script[1].text = <<"Hi, I'm ", "a professional">>

TdDone == td_out.phase = "done"

\* C16: for any non-empty subset of the four named segments, any text
\* lengths and any positive total_duration, _calculate_timing_distribution
\* returns one entry per segment present, the durations sum to
\* total_duration, the first segment starts at 0, and the start times are
\* non-decreasing and contiguous (each start is the previous start plus the
\* previous duration).
C16_TimingTilesTotal ==
    (TdDone /\ td_in.present # {}) =>
        LET t == td_out.timing
        IN  /\ td_out.kind = "returned"
            /\ Len(t) = Cardinality(td_in.present)
            /\ {t[i].name : i \in 1..Len(t)} = td_in.present
            /\ 2 * SumSeq([i \in 1..Len(t) |-> t[i].duration]) = td_in.total * td_out.den
            /\ t[1].start_time = 0
            /\ \A i \in 2..Len(t) :
                /\ t[i].start_time = t[i - 1].start_time + t[i - 1].duration
                /\ t[i].start_time >= t[i - 1].start_time

\* Four segments in 1 second: every duration was raised to the minimum and
\* the normalization pass rescaled them.
C16_Witness ==
    /\ TdDone
    /\ td_in.present = SegmentNames
    /\ td_in.total = 2
    /\ Len(td_out.timing) = 4
    /\ td_out.timing[4].start_time * 4 = 3 * td_out.den

\* C17: when two or more segments are present, every duration returned by
\* _calculate_timing_distribution is at least 0.5 seconds.
C17_MinimumDuration ==
    (TdDone /\ Cardinality(td_in.present) >= 2) =>
        \A i \in 1..Len(td_out.timing) : 2 * td_out.timing[i].duration >= td_out.den

\* C18: after store_cv_analysis, get_analysis_history returns for every
\* record it lists an analysis whose top_skills, strengths, weak_points,
\* suggestions and one_sentence_pitch equal what was stored under that id,
\* payloads with empty lists included; with a limit that covers the table,
\* every stored record that was not deleted is listed.
C18_HistoryRoundTrip ==
    hist_last.op = "get_analysis_history" =>
        /\ \A i \in 1..Len(hist_last.result) :
            LET rec == hist_last.result[i]
            IN  /\ rec.id \in 1..Len(hist.stored)
                /\ rec.has_analysis
                /\ rec.analysis = hist.stored[rec.id]
        /\ hist_last.limit >= Cardinality(hist.cv)
             => {hist_last.result[i].id : i \in 1..Len(hist_last.result)}
                    = {c.id : c \in hist.cv}

C18_Witness ==
    /\ hist_last.op = "get_analysis_history"
    /\ Len(hist_last.result) = 2
    /\ hist_last.result[1].analysis.strengths = <<>>
    /\ hist_last.result[2].analysis.strengths = <<StrQuote, StrBackslash>>
    /\ hist_last.result[2].analysis.weak_points = << <<>> >>

\* The fallback evaluation was produced: evaluate_interview_responses ran,
\* the LLM call or its parsing failed and an evaluation was returned.
FallbackEvaluationDone ==
    /\ iv_out.phase = "done"
    /\ iv_out.fn = "evaluate_interview_responses"
    /\ iv_out.kind = "returned"
    /\ iv_out.source = "fallback"

\* C19: every evaluation produced by the length-based fallback has
\* overall_score and the four interview_performance sub-scores
\* (communication, relevance, confidence, specificity) within 0..100, for
\* any lists of questions and responses.
C19_FallbackScoresInRange ==
    FallbackEvaluationDone =>
        /\ iv_out.overall \in 0..100
        /\ iv_out.performance.communication \in 0..100
        /\ iv_out.performance.relevance \in 0..100
        /\ iv_out.performance.confidence \in 0..100
        /\ iv_out.performance.specificity \in 0..100

\* 40 under 10 words, 60 under 30, 75 under 60, else 85.
AnswerScore(words) ==
    CASE words < 10 -> 40
      [] words >= 10 /\ words < 30 -> 60
      [] words >= 30 /\ words < 60 -> 75
      [] OTHER -> 85

RowTerms(r) ==
    {Fold(r.filename[i]) : i \in 1..Len(r.filename)}
    \cup {Fold(r.original_text[i]) : i \in 1..Len(r.original_text)}

\* C21: after any sequence of inserts, updates and deletes of CV Records in
\* the embedded store, the full-text index holds exactly the filename and
\* text of the rows now in cv_records, and a search returns exactly the live
\* rows whose current filename or text contains the term.
C21_IndexMatchesTable ==
    fts.phase = "on" =>
        /\ fts.idx = UNION {Entries(r.id, r.filename, r.original_text) : r \in fts.cv}
        /\ fts_last.op = "search_analysis_history" =>
              fts_last.ids = {r.id : r \in {x \in fts.cv : fts_last.query \in RowTerms(x)}}

\* Row 1 was deleted and row 2 updated to a text without "java"; a search
\* for "python" then returns row 2 alone.
C21_Witness ==
    /\ fts.phase = "on"
    /\ fts.seq_cv = 2
    /\ fts.cv = {[id |-> 2, filename |-> <<"beta", "pdf">>, original_text |-> <<"Python">>,
                  language |-> "en", updated |-> TRUE]}
    /\ fts_last.op = "search_analysis_history"
    /\ fts_last.query = "python"
    /\ fts_last.ids = {2}

VgDone == vg_in.phase = "idle" /\ vg_out.phase = "done"

\* The generative path was entered and raised or gave no usable file.
VgGeminiFailed ==
    /\ VgDone
    /\ vg_out.tried # <<>>
    /\ vg_out.tried[1] = "gemini"
    /\ vg_out.method # "gemini"

\* C22: whenever the generative path raises or returns no usable file, the
\* video is produced through the plain TTS/moviepy path instead of the
\* request failing, in generate_pitch_video and in
\* generate_video_with_fallback; General requests use the plain path only.
C22_GeminiFailureFallsBack ==
    /\ VgGeminiFailed =>
          /\ vg_out.tried = <<"gemini", "moviepy">>
          /\ vg_out.ret = "returned"
    /\ (VgDone /\ vg_in.entry = "generate_pitch_video"
           /\ vg_in.video_type = "General Pitch") => vg_out.tried = <<"moviepy">>

\* C25: every result generate_video_with_fallback returns holds the keys
\* job_id, status, generation_method, output_path and video_url, and
\* generation_method names the path taken.
C25_UniformResultShape ==
    (VgDone /\ vg_in.entry = "generate_video_with_fallback" /\ vg_out.ret = "returned") =>
        /\ MoviepyResultKeys \subseteq vg_out.keys
        /\ vg_out.method = vg_out.tried[Len(vg_out.tried)]

\* The events of the script run in progress (or just ended).
SessTrace == IF sess.phase = "on" THEN sess_last.trace ELSE <<>>

\* The Analyze step ran, its analysis succeeded and the save failed.
SessSaveFailed ==
    /\ Len(SessTrace) >= 2
    /\ SessTrace[Len(SessTrace)].step = "persist"
    /\ ~SessTrace[Len(SessTrace)].ok
    /\ SessTrace[Len(SessTrace) - 1].step = "analyze"
    /\ SessTrace[Len(SessTrace) - 1].ok

\* C23: if persisting the analysis fails during the Analyze step, the
\* analysis results are still in session state and displayed, and the step
\* still reports success.
C23_PersistFailureTolerated ==
    SessSaveFailed =>
        /\ sess.analysis_results = SessTrace[Len(SessTrace)].analysis
        /\ sess_last.displayed = SessTrace[Len(SessTrace)].analysis
        /\ sess_last.status = "success"

C23_Witness ==
    /\ SessSaveFailed
    /\ sess.pc = "tab3"
    /\ sess.extracted_text = 2
    /\ sess.analysis_results = 2
    /\ sess_last.displayed = 2
    /\ sess.history = {}

\* C24: analysis only runs on a non-empty extracted text, a result is only
\* saved right after its own analysis succeeded, video generation only runs
\* on existing analysis results, and within a script run the steps follow
\* one another: the only step that follows another is the save after its
\* analysis.
C24_StepsCausallyOrdered ==
    \A i \in 1..Len(SessTrace) :
        /\ SessTrace[i].step = "analyze" => SessTrace[i].text # 0
        /\ SessTrace[i].step = "persist" =>
              /\ i > 1
              /\ SessTrace[i - 1].step = "analyze"
              /\ SessTrace[i - 1].ok
              /\ SessTrace[i - 1].analysis = SessTrace[i].analysis
              /\ SessTrace[i].analysis # 0
        /\ SessTrace[i].step = "video" => SessTrace[i].analysis # 0
        /\ i > 1 => (SessTrace[i].step = "persist" /\ SessTrace[i - 1].step = "analyze")

C24_Witness ==
    /\ sess.phase = "on"
    /\ sess.pc = "tab4"
    /\ sess.button = "video"
    /\ sess.video_path = 1
    /\ [text |-> 1, analysis |-> 1] \in sess.history
    /\ Len(SessTrace) = 1
    /\ SessTrace[1].step = "video"

\* C30: whenever the session holds analysis results, they were computed
\* from, or loaded together with, the text the session holds as extracted
\* text.
C30_AnalysisMatchesText ==
    (sess.phase = "on" /\ sess.analysis_results # 0) =>
        sess.analysis_results = sess.extracted_text

TtsDone == tts_in.phase = "idle" /\ tts_out.phase = "done"

\* The characters the TTS-safe filter lets through.
TtsSafe(text) == \A i \in 1..Len(text) : text[i] \in allowed_chars

\* A segment text that is not blank and holds no allowed character but spaces.
CleansToEmpty(text) ==
    /\ Strip(text) # <<>>
    /\ \A i \in 1..Len(text) : text[i] \notin allowed_chars \/ text[i] = " "

\* The joined narration is TTS-safe and every part whose segment text cleans
\* to empty is "professional content" (with its closing punctuation).
TtsFiltered ==
    /\ TtsSafe(tts_out.text)
    /\ \A i \in 1..Len(tts_out.parts) :
          CleansToEmpty(tts_in.script_data[tts_out.parts[i].segment]) =>
              SubSeq(tts_out.parts[i].text, 1, Len(ProfessionalContent)) = ProfessionalContent

GsReports ==
    IF gs_out.phase = "on"
    THEN {r \in {gs_out.prev, gs_out.cur} : r.status # "none"}
    ELSE {}

\* C27: for one job id, check_generation_status reports processing with
\* progress at most 90 under 30 seconds, processing with progress 95 from 30
\* to 60 seconds and completed with progress 100 from 60 seconds on; from
\* one report to the next the progress never decreases and a completed job
\* stays completed; a video URL is present exactly when the status is
\* completed.
C27_StatusCurve ==
    /\ \A r \in GsReports :
        /\ r.at < 30 => (r.status = "processing" /\ r.progress_percentage <= 90)
        /\ (r.at >= 30 /\ r.at < 60) =>
              (r.status = "processing" /\ r.progress_percentage = 95)
        /\ r.at >= 60 => (r.status = "completed" /\ r.progress_percentage = 100)
        /\ (r.video_url # "None") <=> (r.status = "completed")
    /\ (gs_out.phase = "on" /\ gs_out.prev.status # "none") =>
        /\ gs_out.prev.progress_percentage <= gs_out.cur.progress_percentage
        /\ gs_out.prev.status = "completed" => gs_out.cur.status = "completed"

C27_Witness ==
    /\ gs_out.phase = "on"
    /\ gs_out.prev.at = 59
    /\ gs_out.prev.status = "processing"
    /\ gs_out.prev.progress_percentage = 95
    /\ gs_out.cur.at = 60
    /\ gs_out.cur.status = "completed"
    /\ gs_out.cur.video_url = "url"

\* C28: the query-builder client and the raw-SQL functions operate on the
\* same live connection, the one get_database_connection has cached, also
\* after a closed cached connection was replaced by a reconnect: no
\* operation runs on a closed connection while a live one is cached.
C28_OneLiveConnection ==
    conn.phase = "on" =>
        /\ conn.supabase_client # 0 => conn.supabase_client = conn.db_connection
        /\ (conn_last.op # "none" /\ conn_last.on_closed) => ~conn_last.live_cached

\* C29: in the embedded store, after any sequence of store_cv_analysis,
\* store_video_record, delete_cv_record and cleanup_old_records calls, every
\* Analysis Result row and every Video Record row references a CV Record that
\* exists.
C29_NoOrphanRows ==
    /\ \A r \in lite.ar : r.cv_id \in lite.cv
    /\ \A r \in lite.vr : r.cv_id \in lite.cv

====
